---- MODULE Spec2Model ----
(***************************************************************************)
(* A model of mkly: the command tree built by Command.option / argument /  *)
(* command / alias / action, the token classifier parseToken, and the      *)
(* resolution loop of CLI.run.                                             *)
(*                                                                         *)
(* Strings are sequences of one-character strings, so that trim,           *)
(* startsWith, split and the regular expressions of the classifier are     *)
(* computed character by character.                                        *)
(***************************************************************************)
EXTENDS Integers, Sequences, FiniteSets, TLC

VARIABLES
    nodes,            \* the arena of Command instances, nodes[1] is the CLI
    lastCall,         \* the last construction call and its outcome
    calls,            \* number of construction calls made so far
    variant,          \* which of the two token/constants definitions is built
    pc,               \* position of CLI.run
    argv,             \* the caller's argv array
    tokens,           \* run: const tokens = argv.slice()
    activeCommand,    \* run: let command
    args,             \* run: const args
    options,          \* run: const options
    positionalIndex,  \* run: let positionalIndex
    endOfFlags,       \* run: let endOfFlags
    i,                \* run: loop index of the token scan (1-based)
    disp,             \* history: what the scan did with each token it took
    outcome,          \* what run reported: diagnostic, exit code, handler call
    given,            \* the function last applied on its own, and its argument
    result            \* what that function returned or threw

buildVars == <<nodes, lastCall, calls>>
runVars == <<pc, argv, tokens, activeCommand, args, options, positionalIndex,
             endOfFlags, i, disp, outcome>>
pureVars == <<given, result>>
vars == <<nodes, lastCall, calls, variant, pc, argv, tokens, activeCommand,
          args, options, positionalIndex, endOfFlags, i, disp, outcome, given, result>>

----------------------------------------------------------------------------
(* Bounds *)

MaxCalls == 3
MaxNodes == 3
MaxArgv == 3

----------------------------------------------------------------------------
(* Strings *)

\* the characters matched by \w
WordChars ==
    {"a", "b", "c", "d", "e", "f", "g", "h", "i", "j", "k", "l", "m", "n", "o",
     "p", "q", "r", "s", "t", "u", "v", "w", "x", "y", "z",
     "A", "B", "C", "D", "E", "F", "G", "H", "I", "J", "K", "L", "M", "N", "O",
     "P", "Q", "R", "S", "T", "U", "V", "W", "X", "Y", "Z",
     "0", "1", "2", "3", "4", "5", "6", "7", "8", "9", "_"}

\* the line terminators, which "." does not match without the s flag
LineTerminators == {"\n", "\r"}

IsSpace(c) == c \in {" ", "\t", "\n", "\r"}

RECURSIVE TrimStart(_)
TrimStart(s) ==
    IF s # <<>> /\ IsSpace(Head(s)) THEN TrimStart(Tail(s)) ELSE s

RECURSIVE TrimEnd(_)
TrimEnd(s) ==
    IF s # <<>> /\ IsSpace(s[Len(s)]) THEN TrimEnd(SubSeq(s, 1, Len(s) - 1)) ELSE s

\* String.prototype.trim
Trim(s) == TrimEnd(TrimStart(s))

\* String.prototype.startsWith
StartsWith(s, p) == Len(s) >= Len(p) /\ SubSeq(s, 1, Len(p)) = p

\* String.prototype.includes, for a one-character needle
Includes(s, c) == \E k \in 1..Len(s) : s[k] = c

\* String.prototype.slice(n) / substring(n), n >= 0
Slice(s, n) == SubSeq(s, n + 1, Len(s))

IndexOf(s, c) == CHOOSE k \in 1..Len(s) : s[k] = c /\ \A j \in 1..(k - 1) : s[j] # c

\* the value of a field that is undefined
Undefined == <<"undefined">>

----------------------------------------------------------------------------
(* Token classification *)

\* the two definitions of ALIAS / ALIAS_WITH_VALUE found in the sources
Variants == {"anchored", "prefix"}

\* /^-(\w+)=(.*)$/s  and  /^-\w=/
ALIAS_WITH_VALUE(v, s) ==
    IF v = "anchored"
    THEN /\ Len(s) >= 3
         /\ s[1] = "-"
         /\ Includes(s, "=")
         /\ IndexOf(s, "=") >= 3
         /\ \A k \in 2..(IndexOf(s, "=") - 1) : s[k] \in WordChars
    ELSE /\ Len(s) >= 3
         /\ s[1] = "-"
         /\ s[2] \in WordChars
         /\ s[3] = "="

\* /^-\w+$/  and  /^-\w.+/
ALIAS(v, s) ==
    IF v = "anchored"
    THEN /\ Len(s) >= 2
         /\ s[1] = "-"
         /\ \A k \in 2..Len(s) : s[k] \in WordChars
    ELSE /\ Len(s) >= 3
         /\ s[1] = "-"
         /\ s[2] \in WordChars
         /\ s[3] \notin LineTerminators

\* trimmed.split(ALIAS_VALUE_REGEX) with ALIAS_VALUE_REGEX = /=(.*)/s :
\* the text before the first "=" and the captured text after it
SplitKeyPart(s) == IF Includes(s, "=") THEN SubSeq(s, 1, IndexOf(s, "=") - 1) ELSE s
SplitValPart(s) == IF Includes(s, "=") THEN Slice(s, IndexOf(s, "=")) ELSE <<>>

Parsed(key, value, isFlag, isNegation, isEndOfFlags, original) ==
    [key |-> key, value |-> value, isFlag |-> isFlag, isNegation |-> isNegation,
     isEndOfFlags |-> isEndOfFlags, original |-> original]

parseToken(v, token) ==
    LET trimmed == Trim(token) IN
    IF trimmed = <<"-", "-">>
    THEN Parsed(Undefined, Undefined, FALSE, FALSE, TRUE, token)
    ELSE IF StartsWith(trimmed, <<"-", "-", "n", "o", "-">>)
    THEN Parsed(Slice(trimmed, 5), Undefined, TRUE, TRUE, FALSE, token)
    ELSE IF StartsWith(trimmed, <<"-", "-">>) /\ Includes(trimmed, "=")
    THEN Parsed(Slice(SplitKeyPart(trimmed), 2), SplitValPart(trimmed),
                TRUE, FALSE, FALSE, token)
    ELSE IF StartsWith(trimmed, <<"-", "-">>)
    THEN Parsed(Slice(trimmed, 2), Undefined, TRUE, FALSE, FALSE, token)
    ELSE IF ALIAS_WITH_VALUE(v, trimmed)
    THEN Parsed(Slice(SplitKeyPart(trimmed), 1), SplitValPart(trimmed),
                TRUE, FALSE, FALSE, token)
    ELSE IF ALIAS(v, trimmed)
    THEN Parsed(Slice(trimmed, 1), Undefined, TRUE, FALSE, FALSE, token)
    ELSE Parsed(Undefined, Undefined, FALSE, FALSE, FALSE, token)

----------------------------------------------------------------------------
(* Values *)

\* A JavaScript value: undefined, a string or a boolean.
UndefinedValue == [t |-> "undefined", s |-> <<>>, b |-> FALSE]
StringValue(s) == [t |-> "string", s |-> s, b |-> FALSE]
BooleanValue(b) == [t |-> "boolean", s |-> <<>>, b |-> b]

----------------------------------------------------------------------------
(* The command tree *)

\* Map.prototype.has / get / set on a Map kept as the sequence of its entries
\* in insertion order
MapHas(m, name) == \E k \in 1..Len(m) : m[k].name = name
MapIndex(m, name) == CHOOSE k \in 1..Len(m) : m[k].name = name
MapGet(m, name) == m[MapIndex(m, name)].value
MapSet(m, name, value) ==
    IF MapHas(m, name)
    THEN [m EXCEPT ![MapIndex(m, name)] = [name |-> name, value |-> value]]
    ELSE Append(m, [name |-> name, value |-> value])

NoName == Undefined
NoHandler == "none"
NoType == "none"
NoNode == 0

\* new Command(name)
NewCommand(name) ==
    [name |-> name, commands |-> <<>>, aliases |-> {}, argumentsDef |-> <<>>,
     optionsDef |-> <<>>, handler |-> NoHandler]

\* a config object as the author writes it; a type that is not given is NoType
Config(type, optional, defaultValue, alias, choices) ==
    [type |-> type, optional |-> optional, defaultValue |-> defaultValue,
     alias |-> alias, choices |-> choices]

DEFAULT_ARGUMENT == "boolean"
DEFAULT_OPTION == "boolean"

\* { ...DEFAULT, ...config }
Spread(defaultType, config) ==
    IF config.type = NoType THEN [config EXCEPT !.type = defaultType] ELSE config

Result(newNodes, err, returned) == [nodes |-> newNodes, err |-> err, returned |-> returned]

\* Command.option on node n
option(ns, n, name, config) ==
    LET opts == Spread(DEFAULT_OPTION, config) IN
    IF MapHas(ns[n].optionsDef, name)
    THEN Result(ns, "DuplicateDefinition", NoNode)
    ELSE Result([ns EXCEPT ![n].optionsDef = MapSet(@, name, opts)], "none", n)

\* required, with the test of the default inverted
IsRequired_inverted(arg) == ~arg.optional /\ arg.defaultValue # UndefinedValue

\* required, by the optional flag alone
IsRequired_flagOnly(arg) == ~arg.optional

\* required, as CLI.run decides it: !arg.optional && arg.defaultValue === undefined
IsRequired(arg) == ~arg.optional /\ arg.defaultValue = UndefinedValue

\* argument, with the test for earlier optional arguments looking at the
\* optional flag only
argument_flagOnly(ns, n, name, config) ==
    LET opts == Spread(DEFAULT_ARGUMENT, config)
        isRequired == ~opts.optional
        hasOptionalArgs ==
            \E k \in 1..Len(ns[n].argumentsDef) : ns[n].argumentsDef[k].value.optional
    IN
    IF MapHas(ns[n].argumentsDef, name)
    THEN Result(ns, "DuplicateDefinition", NoNode)
    ELSE IF isRequired /\ hasOptionalArgs
    THEN Result(ns, "OrderingViolation", NoNode)
    ELSE Result([ns EXCEPT ![n].argumentsDef = MapSet(@, name, opts)], "none", n)

\* Command.argument on node n
argument(ns, n, name, config) ==
    LET opts == Spread(DEFAULT_ARGUMENT, config)
        isRequired == ~opts.optional
        hasOptionalArgs ==
            \E k \in 1..Len(ns[n].argumentsDef) :
                LET arg == ns[n].argumentsDef[k].value IN
                arg.optional \/ arg.defaultValue # UndefinedValue
    IN
    IF MapHas(ns[n].argumentsDef, name)
    THEN Result(ns, "DuplicateDefinition", NoNode)
    ELSE IF isRequired /\ hasOptionalArgs
    THEN Result(ns, "OrderingViolation", NoNode)
    ELSE Result([ns EXCEPT ![n].argumentsDef = MapSet(@, name, opts)], "none", n)

\* command, without the test for an existing sub-command
command_overwrite(ns, n, name, commad) ==
    LET fresh == commad = NoNode
        cmd == IF fresh THEN Len(ns) + 1 ELSE commad
        created == IF fresh THEN Append(ns, NewCommand(NoName)) ELSE ns
        renamed == [created EXCEPT ![cmd].name = name]
    IN Result([renamed EXCEPT ![n].commands = MapSet(@, name, cmd)], "none", cmd)

\* command, naming the instance it was given before the test for an
\* existing sub-command
command_renameFirst(ns, n, name, commad) ==
    LET fresh == commad = NoNode
        cmd == IF fresh THEN Len(ns) + 1 ELSE commad
        named == IF fresh THEN ns ELSE [ns EXCEPT ![cmd].name = name]
        created == IF fresh THEN Append(ns, NewCommand(name)) ELSE named
    IN  IF MapHas(ns[n].commands, name)
        THEN Result(named, "DuplicateDefinition", NoNode)
        ELSE Result([created EXCEPT ![n].commands = MapSet(@, name, cmd)], "none", cmd)

\* Command.command on node n; commad is an existing instance or NoNode
command(ns, n, name, commad) ==
    IF MapHas(ns[n].commands, name)
    THEN Result(ns, "DuplicateDefinition", NoNode)
    ELSE LET fresh == commad = NoNode
             cmd == IF fresh THEN Len(ns) + 1 ELSE commad
             created == IF fresh THEN Append(ns, NewCommand(NoName)) ELSE ns
             renamed == [created EXCEPT ![cmd].name = name]
         IN Result([renamed EXCEPT ![n].commands = MapSet(@, name, cmd)], "none", cmd)

\* Command.alias on node n
alias(ns, n, aliases) ==
    Result([ns EXCEPT ![n].aliases = @ \cup aliases], "none", n)

\* Command.action on node n
action(ns, n, callback) ==
    IF ns[n].handler # NoHandler
    THEN Result(ns, "HandlerAlreadySet", NoNode)
    ELSE Result([ns EXCEPT ![n].handler = callback], "none", n)

----------------------------------------------------------------------------
(* Value coercion *)

UpperCase ==
    <<"A", "B", "C", "D", "E", "F", "G", "H", "I", "J", "K", "L", "M", "N", "O",
      "P", "Q", "R", "S", "T", "U", "V", "W", "X", "Y", "Z">>
LowerCase ==
    <<"a", "b", "c", "d", "e", "f", "g", "h", "i", "j", "k", "l", "m", "n", "o",
      "p", "q", "r", "s", "t", "u", "v", "w", "x", "y", "z">>

\* String.prototype.toLowerCase
ToLowerCase(s) ==
    [k \in 1..Len(s) |->
        IF \E j \in 1..Len(UpperCase) : UpperCase[j] = s[k]
        THEN LowerCase[CHOOSE j \in 1..Len(UpperCase) : UpperCase[j] = s[k]]
        ELSE s[k]]

TRUE_VALUES == {<<"t", "r", "u", "e">>, <<"1">>, <<"y", "e", "s">>, <<"o", "n">>}
FALSE_VALUES == {<<"f", "a", "l", "s", "e">>, <<"0">>, <<"n", "o">>, <<"o", "f", "f">>}

\* the result of a coercion: a value, or a thrown ParsingError
Coerced(value) == [ok |-> TRUE, value |-> value]
ParsingError == [ok |-> FALSE, value |-> UndefinedValue]

parseBoolean(input) ==
    LET trimmed == ToLowerCase(Trim(input)) IN
    IF trimmed \in TRUE_VALUES THEN Coerced(BooleanValue(TRUE))
    ELSE IF trimmed \in FALSE_VALUES THEN Coerced(BooleanValue(FALSE))
    ELSE ParsingError

parseChoice(input, choices) ==
    LET trimmed == Trim(input) IN
    IF \E k \in 1..Len(choices) : choices[k] = trimmed
    THEN Coerced(StringValue(trimmed))
    ELSE ParsingError

NumberValue(s) == [t |-> "number", s |-> s, b |-> FALSE]

DecimalDigits == {"0", "1", "2", "3", "4", "5", "6", "7", "8", "9"}

RECURSIVE digitsEnd(_, _)
digitsEnd(s, p) ==
    IF p <= Len(s) /\ s[p] \in DecimalDigits THEN digitsEnd(s, p + 1) ELSE p

RECURSIVE dropLeadingZeros(_)
dropLeadingZeros(ds) ==
    IF ds # <<>> /\ Head(ds) = "0" THEN dropLeadingZeros(Tail(ds)) ELSE ds

RECURSIVE dropTrailingZeros(_)
dropTrailingZeros(ds) ==
    IF ds # <<>> /\ ds[Len(ds)] = "0"
    THEN dropTrailingZeros(SubSeq(ds, 1, Len(ds) - 1))
    ELSE ds

\* Number(input) for decimal texts: white space around is skipped, the empty
\* text is 0, then a sign, digits, and a fraction after "."; anything else
\* is NaN (ok FALSE). The number is written as String(n) writes it.
unsignedPart(trimmed) ==
    IF trimmed # <<>> /\ Head(trimmed) \in {"-", "+"} THEN Tail(trimmed) ELSE trimmed

intDigits(body) == SubSeq(body, 1, digitsEnd(body, 1) - 1)

isDotted(body) == digitsEnd(body, 1) <= Len(body) /\ body[digitsEnd(body, 1)] = "."

literalEnd(body) ==
    IF isDotted(body) THEN digitsEnd(body, digitsEnd(body, 1) + 1) ELSE digitsEnd(body, 1)

fracDigits(body) ==
    IF isDotted(body) THEN SubSeq(body, digitsEnd(body, 1) + 1, literalEnd(body) - 1) ELSE <<>>

\* String(n) of the number with these digits
written(negative, int, frac) ==
    (IF negative /\ (int # <<>> \/ frac # <<>>) THEN <<"-">> ELSE <<>>)
    \o (IF int = <<>> THEN <<"0">> ELSE int)
    \o (IF frac = <<>> THEN <<>> ELSE <<".">> \o frac)

toNumber(input) ==
    LET body == unsignedPart(Trim(input))
    IN  IF Trim(input) = <<>> THEN [ok |-> TRUE, text |-> <<"0">>]
        ELSE IF /\ literalEnd(body) = Len(body) + 1
                /\ (intDigits(body) # <<>> \/ fracDigits(body) # <<>>)
        THEN [ok |-> TRUE,
              text |-> written(Head(Trim(input)) = "-",
                               dropLeadingZeros(intDigits(body)),
                               dropTrailingZeros(fracDigits(body)))]
        ELSE [ok |-> FALSE, text |-> <<>>]

parseNumber(input) ==
    LET n == toNumber(input)
    IN  IF ~n.ok THEN ParsingError ELSE Coerced(NumberValue(n.text))

\* parseValue, for the value kinds the model declares
parseValue(type, value, choices) ==
    IF type = "boolean" THEN parseBoolean(value)
    ELSE IF type = "choice" THEN parseChoice(value, choices)
    ELSE IF type = "string" THEN Coerced(StringValue(value))
    ELSE IF type = "number" THEN parseNumber(value)
    ELSE ParsingError

\* coerceArgument(arg, raw, choices); type is the value of arg.type, NoType
\* when arg has no such property
coerceArgument(type, raw, choices) ==
    IF type # NoType THEN parseValue(type, raw.s, choices) ELSE Coerced(raw)

\* coerceOption(opt, raw, choices)
coerceOption(type, raw, choices) ==
    IF raw.t = "boolean" THEN Coerced(raw)
    ELSE IF type # NoType THEN parseValue(type, raw.s, choices)
    ELSE Coerced(raw)

----------------------------------------------------------------------------
(* Declaration phase: the calls a CLI author makes *)

ArgNames == {<<"p">>, <<"q">>}
OptNames == {<<"x">>, <<"t">>}
CmdNames == {<<"r">>, <<"a">>}
Callbacks == {"h1", "h2"}

Required == Config("string", FALSE, UndefinedValue, <<>>, <<>>)
Optional == Config("string", TRUE, UndefinedValue, <<>>, <<>>)
Defaulted == Config("string", FALSE, StringValue(<<"d">>), <<>>, <<>>)
Untyped == Config(NoType, FALSE, UndefinedValue, <<>>, <<>>)

ArgConfigs == {Required, Optional, Defaulted}

OptConfigs ==
    {Config(NoType, FALSE, UndefinedValue, <<>>, <<>>),
     Config(NoType, FALSE, UndefinedValue, << <<"m">> >>, <<>>),
     Config("string", TRUE, UndefinedValue, << <<"m">>, <<"x">> >>, <<>>)}

NoConfig == Config(NoType, FALSE, UndefinedValue, <<>>, <<>>)

Call(op, n, name, config, commad, callback, r) ==
    [op |-> op, node |-> n, name |-> name, config |-> config, commad |-> commad,
     callback |-> callback, err |-> r.err, returned |-> r.returned]

\* what a run has reported so far: what it printed, the exit code it ended
\* the process with, the error it printed or threw, and the handler's call
NoOutcome ==
    [printed |-> "none", helpOf |-> NoNode, exitCode |-> "none",
     error |-> [kind |-> "none", subject |-> Undefined],
     handlerCalls |-> 0, handlerArgs |-> <<>>, handlerOptions |-> <<>>,
     thrown |-> FALSE]

\* no function has been applied on its own
NoInput == [fn |-> "none", text |-> <<>>]
NoResult == [ok |-> TRUE, value |-> UndefinedValue]
Idle == given = NoInput /\ result = NoResult

NoRun ==
    /\ pc = "build"
    /\ argv = <<>>
    /\ tokens = <<>>
    /\ activeCommand = NoNode
    /\ args = <<>>
    /\ options = <<>>
    /\ positionalIndex = 0
    /\ endOfFlags = FALSE
    /\ i = 0
    /\ disp = <<>>
    /\ outcome = NoOutcome
    /\ Idle

\* new CLI(name)
InitBuild ==
    /\ nodes = <<NewCommand(<<"c", "l", "i">>)>>
    /\ lastCall = Call("new", 1, <<"c", "l", "i">>, NoConfig, NoNode, NoHandler,
                        Result(nodes, "none", 1))
    /\ calls = 0
    /\ variant \in Variants
    /\ NoRun

Declared(r, call) ==
    /\ calls < MaxCalls
    /\ Len(r.nodes) <= MaxNodes
    /\ nodes' = r.nodes
    /\ lastCall' = call
    /\ calls' = calls + 1
    /\ UNCHANGED <<variant, runVars, pureVars>>

Option ==
    \E n \in 1..Len(nodes), name \in OptNames, config \in OptConfigs :
        LET r == option(nodes, n, name, config) IN
        Declared(r, Call("option", n, name, config, NoNode, NoHandler, r))

Argument ==
    \E n \in 1..Len(nodes), name \in ArgNames, config \in ArgConfigs :
        LET r == argument(nodes, n, name, config) IN
        Declared(r, Call("argument", n, name, config, NoNode, NoHandler, r))

SubCommand ==
    \E n \in 1..Len(nodes), name \in CmdNames, commad \in 0..Len(nodes) :
        LET r == command(nodes, n, name, commad) IN
        Declared(r, Call("command", n, name, NoConfig, commad, NoHandler, r))

Alias ==
    \E n \in 1..Len(nodes), a \in CmdNames :
        LET r == alias(nodes, n, {a}) IN
        Declared(r, Call("alias", n, a, NoConfig, NoNode, NoHandler, r))

Action ==
    \E n \in 1..Len(nodes), callback \in Callbacks :
        LET r == action(nodes, n, callback) IN
        Declared(r, Call("action", n, NoName, NoConfig, NoNode, callback, r))

NextBuild == Option \/ Argument \/ SubCommand \/ Alias \/ Action

SpecBuild == InitBuild /\ [][NextBuild]_vars

----------------------------------------------------------------------------
(* Properties of the declaration phase *)

\* a definition is required when it is neither optional nor carries a default
RequiredDef(def) == def.optional = FALSE /\ def.defaultValue.t = "undefined"

HasOptionalBefore(node) ==
    \E k \in 1..Len(node.argumentsDef) : ~RequiredDef(node.argumentsDef[k].value)

PositionalsOrdered(ns) ==
    \A n \in 1..Len(ns) :
        \A j, k \in 1..Len(ns[n].argumentsDef) :
            j < k => ~(/\ ~RequiredDef(ns[n].argumentsDef[j].value)
                       /\ RequiredDef(ns[n].argumentsDef[k].value))

RequiredAfterOptional(c) ==
    /\ c.op = "argument"
    /\ RequiredDef(c.config)
    /\ HasOptionalBefore(nodes[c.node])

\* C1, as stated: the stored positionals never hold a required one after an
\* optional or defaulted one, and declaring a required positional after an
\* optional one always fails with the ordering error.
C1_AlwaysOrderingError ==
    [][/\ PositionalsOrdered(nodes')
       /\ RequiredAfterOptional(lastCall') => lastCall'.err = "OrderingViolation"]_vars

\* C1, amended: the stored positionals never hold a required one after an
\* optional or defaulted one, and declaring a required positional after an
\* optional one always fails: with the ordering error when its name is not yet
\* registered on the command, with the duplicate-definition error when it is.
C1_RequiredBeforeOptional ==
    [][/\ PositionalsOrdered(nodes')
       /\ RequiredAfterOptional(lastCall') =>
             lastCall'.err =
                 IF MapHas(nodes[lastCall'.node].argumentsDef, lastCall'.name)
                 THEN "DuplicateDefinition"
                 ELSE "OrderingViolation"]_vars

\* a required positional with a fresh name was refused after an optional one,
\* on a command that holds two positionals
C1_Witness ==
    /\ lastCall.op = "argument"
    /\ lastCall.err = "OrderingViolation"
    /\ RequiredDef(lastCall.config)
    /\ \E k \in 1..Len(nodes[lastCall.node].argumentsDef) :
           nodes[lastCall.node].argumentsDef[k].value.optional

\* C2: argument(name, def) with a name not yet registered fails with the
\* ordering error exactly when def is required (neither optional nor carrying
\* a default) and an earlier positional of the node is optional or defaulted.
C2_OrderingErrorExactly ==
    [][(/\ lastCall'.op = "argument"
        /\ ~MapHas(nodes[lastCall'.node].argumentsDef, lastCall'.name))
       => (lastCall'.err = "OrderingViolation" <=> RequiredAfterOptional(lastCall'))]_vars

OptionKeys(entry) == {entry.name} \cup {entry.value.alias[k] : k \in 1..Len(entry.value.alias)}

\* C3: no two stored option definitions of a command share a canonical name
\* or an alias, and no alias equals another option's canonical name.
C3_OptionNamesUnique ==
    \A n \in 1..Len(nodes) :
        \A j, k \in 1..Len(nodes[n].optionsDef) :
            j # k => OptionKeys(nodes[n].optionsDef[j]) \cap OptionKeys(nodes[n].optionsDef[k]) = {}

\* C4: option, argument and command fail with the duplicate-definition error
\* exactly when the name is already registered for that kind on the node, and
\* command(name) without an instance creates a new empty child, registers it
\* under name and returns it.
C4_DuplicateExactly ==
    [][LET c == lastCall' IN
       /\ c.op = "option" =>
             (c.err = "DuplicateDefinition" <=> MapHas(nodes[c.node].optionsDef, c.name))
       /\ c.op = "argument" =>
             (c.err = "DuplicateDefinition" <=> MapHas(nodes[c.node].argumentsDef, c.name))
       /\ c.op = "command" =>
             (c.err = "DuplicateDefinition" <=> MapHas(nodes[c.node].commands, c.name))
       /\ (c.op = "command" /\ c.commad = NoNode /\ c.err = "none") =>
             /\ c.returned \notin 1..Len(nodes)
             /\ c.returned \in 1..Len(nodes')
             /\ nodes'[c.returned] = NewCommand(c.name)
             /\ MapGet(nodes'[c.node].commands, c.name) = c.returned]_vars

\* a second command() under a name that is taken was refused, on a node whose
\* child was created by command(name)
C4_Witness ==
    /\ lastCall.op = "command"
    /\ lastCall.err = "DuplicateDefinition"
    /\ \E k \in 1..Len(nodes[lastCall.node].commands) :
           /\ nodes[lastCall.node].commands[k].name = lastCall.name
           /\ nodes[nodes[lastCall.node].commands[k].value] = NewCommand(lastCall.name)

----------------------------------------------------------------------------
(* CLI.run *)

VERSION_KEYS == {<<"v", "e", "r", "s", "i", "o", "n">>, <<"v">>}
HELP_KEYS == {<<"h", "e", "l", "p">>, <<"h">>}

\* the version test, for the long name only
IsVersionKey_longOnly(parsed) == parsed.key = <<"v", "e", "r", "s", "i", "o", "n">>

IsVersionKey(parsed) == parsed.key \in VERSION_KEYS
IsHelpKey(parsed) == parsed.key \in HELP_KEYS

\* args[name] === undefined
IsUnbound(m, name) == ~MapHas(m, name) \/ MapGet(m, name) = UndefinedValue

\* the lookup of a sub-command, also by the aliases of the children
GetSub_byAlias(ns, n, next) ==
    LET hits == {k \in 1..Len(ns[n].commands) :
                    \/ ns[n].commands[k].name = next
                    \/ next \in ns[ns[n].commands[k].value].aliases}
    IN IF hits = {} THEN NoNode
       ELSE ns[n].commands[CHOOSE k \in hits : \A j \in hits : k <= j].value

\* command.commands.get(next), NoNode when there is none
GetSub(ns, n, next) ==
    IF MapHas(ns[n].commands, next) THEN MapGet(ns[n].commands, next) ELSE NoNode

CommandError(kind, subject) == [kind |-> kind, subject |-> subject]
NoError == CommandError("none", Undefined)

\* the scan state: the locals of run that the token loop updates
ScanState(a, o, p, e, k) ==
    [args |-> a, options |-> o, positionalIndex |-> p, endOfFlags |-> e, i |-> k]

\* what one iteration of the token loop did: went on, exited, or threw
Continue(st, as, name) ==
    [kind |-> "continue", st |-> st, err |-> NoError, as |-> as, name |-> name]
Exit(st, as) ==
    [kind |-> "exit", st |-> st, err |-> NoError, as |-> as, name |-> Undefined]
\* a failure that does not end the loop: the scan goes on with the next token
Throw_goOn(st, kind, subject) ==
    [kind |-> "continue", st |-> [st EXCEPT !.i = @ + 1],
     err |-> CommandError(kind, subject), as |-> "error", name |-> Undefined]

Throw(st, kind, subject) ==
    [kind |-> "throw", st |-> st, err |-> CommandError(kind, subject),
     as |-> "error", name |-> Undefined]

\* the value of a boolean option, without regard to a negation
flagValue_noNegation(parsed) ==
    IF parsed.value # Undefined THEN StringValue(parsed.value) ELSE BooleanValue(TRUE)

\* parsed.value !== undefined ? parsed.value : !parsed.isNegation
flagValue(parsed) ==
    IF parsed.value # Undefined
    THEN StringValue(parsed.value)
    ELSE BooleanValue(~parsed.isNegation)

\* the OPTION part of the loop body
scanOption(node, toks, st, parsed) ==
    LET defs == node.optionsDef
        direct == MapHas(defs, parsed.key)
        aliased ==
            {k \in 1..Len(defs) :
                \E j \in 1..Len(defs[k].value.alias) : defs[k].value.alias[j] = parsed.key}
        first == CHOOSE k \in aliased : \A j \in aliased : k <= j
        key == IF direct THEN parsed.key ELSE defs[first].name
        opt == MapGet(defs, key)
        next == IF st.i + 1 <= Len(toks) THEN toks[st.i + 1] ELSE Undefined
    IN
    IF Len(defs) = 0
    THEN Throw(st, "UnknownOption", parsed.original)
    ELSE IF ~direct /\ aliased = {}
    THEN Throw(st, "UnknownOption", parsed.original)
    ELSE IF opt.type = "boolean"
    THEN Continue(
             [st EXCEPT !.options =
                 MapSet(@, key, flagValue(parsed)),
                        !.i = @ + 1],
             "option", key)
    ELSE IF parsed.value # Undefined
    THEN LET c == coerceOption(opt.type, StringValue(parsed.value), opt.choices) IN
         IF c.ok
         THEN Continue([st EXCEPT !.options = MapSet(@, key, c.value), !.i = @ + 1],
                       "option", key)
         ELSE Throw(st, "InvalidValue", parsed.value)
    ELSE IF next = Undefined \/ next = <<>>
    THEN Throw(st, "MissingOptionValue", parsed.original)
    ELSE LET c == coerceOption(opt.type, StringValue(next), <<>>) IN
         IF c.ok
         THEN Continue([st EXCEPT !.options = MapSet(@, key, c.value), !.i = @ + 2],
                       "optionWithNext", key)
         ELSE Throw(st, "InvalidValue", next)

\* consuming a positional, without moving the positional cursor
consumePositional_noAdvance(st, name, arg, raw) ==
    LET c == coerceArgument(arg.type, StringValue(raw), arg.choices) IN
    IF c.ok
    THEN Continue([st EXCEPT !.args = MapSet(@, name, c.value), !.i = @ + 1],
                  "positional", name)
    ELSE Throw(st, "InvalidValue", raw)

\* "Consume positional argument": args[name] = coerceArgument(arg, raw,
\* arg.choices); positionalIndex++; continue
consumePositional(st, name, arg, raw) ==
    LET c == coerceArgument(arg.type, StringValue(raw), arg.choices) IN
    IF c.ok
    THEN Continue([st EXCEPT !.args = MapSet(@, name, c.value),
                             !.positionalIndex = @ + 1,
                             !.i = @ + 1],
                  "positional", name)
    ELSE Throw(st, "InvalidValue", raw)

\* the part of the loop body after the version, help and "--" tests
scanSchema(node, toks, st, parsed) ==
    LET raw == toks[st.i]
        positionalDefs == node.argumentsDef
        hasPendingPositionals == st.positionalIndex < Len(positionalDefs)
        name == positionalDefs[st.positionalIndex + 1].name
        arg == positionalDefs[st.positionalIndex + 1].value
        looksLikeOption == parsed.isFlag /\ ~st.endOfFlags
        rest ==
            IF looksLikeOption
            THEN scanOption(node, toks, st, parsed)
            ELSE Throw(st, "UnexpectedArgument", raw)
    IN
    IF hasPendingPositionals
    THEN IF looksLikeOption
         THEN IF IsRequired(arg)
              THEN Throw(st, "UnexpectedOption", parsed.original)
              ELSE rest
         ELSE consumePositional(st, name, arg, raw)
    ELSE rest

\* one iteration of the token loop of run
scanToken(v, node, toks, st) ==
    LET parsed == parseToken(v, toks[st.i]) IN
    IF IsVersionKey(parsed) THEN Exit(st, "version")
    ELSE IF IsHelpKey(parsed) THEN Exit(st, "help")
    ELSE IF parsed.isEndOfFlags
    THEN Continue([st EXCEPT !.endOfFlags = TRUE, !.i = @ + 1], "endOfFlags", Undefined)
    ELSE scanSchema(node, toks, st, parsed)

\* the defaults, bound whether or not a token has bound the name
RECURSIVE applyDefaults_overwrite(_, _, _)
applyDefaults_overwrite(defs, bound, k) ==
    IF k = 0 THEN bound
    ELSE LET before == applyDefaults_overwrite(defs, bound, k - 1)
             name == defs[k].name
             def == defs[k].value
         IN IF def.defaultValue # UndefinedValue
            THEN MapSet(before, name, coerceArgument(NoType, def.defaultValue, <<>>).value)
            ELSE before

\* steps 4 and 5 of run: the defaults, applied to the first k definitions
RECURSIVE applyDefaults(_, _, _)
applyDefaults(defs, bound, k) ==
    IF k = 0 THEN bound
    ELSE LET before == applyDefaults(defs, bound, k - 1)
             name == defs[k].name
             def == defs[k].value
         IN IF IsUnbound(before, name) /\ def.defaultValue # UndefinedValue
            THEN MapSet(before, name, coerceArgument(NoType, def.defaultValue, <<>>).value)
            ELSE before

\* the handler test, taking every command to have one
hasHandler_always(node) == TRUE

\* step 7 of run: command.handler is set
hasHandler(node) == node.handler # NoHandler

\* the catch of run, rethrowing nothing
rethrown_never(fromAction, fromKLY) == FALSE

\* catch (e) of run: if (e.fromAction && e.fromKLY !== true) throw e
rethrown(fromAction, fromKLY) == fromAction /\ ~fromKLY

\* step 6 of run: the required arguments that are still unbound
missingRequired(defs, bound) ==
    {k \in 1..Len(defs) : IsRequired(defs[k].value) /\ IsUnbound(bound, defs[k].name)}

----------------------------------------------------------------------------
(* The command trees that runs start from, each built by declarations *)

cli == <<"c", "l", "i">>

BooleanOption(aliases) == Config(NoType, FALSE, UndefinedValue, aliases, <<>>)
StringOption(aliases) == Config("string", TRUE, UndefinedValue, aliases, <<>>)

\* the positional declarations of a tree: p alone, or p then q
ArgScripts ==
    {<<>>}
    \cup {<<c>> : c \in ArgConfigs \cup {Untyped}}
    \cup {<<c, d>> : c \in ArgConfigs \cup {Untyped}, d \in ArgConfigs}

RECURSIVE DeclareArguments(_, _, _, _)
DeclareArguments(ns, n, script, k) ==
    IF k = 0 THEN ns
    ELSE argument(DeclareArguments(ns, n, script, k - 1), n,
                  IF k = 1 THEN <<"p">> ELSE <<"q">>, script[k]).nodes

\* .option('x', {alias: ['m']}).option('t', {type: 'string', alias: ['v']})
\* .option('help')
DeclareOptions(ns, n) ==
    option(option(option(ns, n, <<"x">>, BooleanOption(<< <<"m">> >>)).nodes,
                  n, <<"t">>, StringOption(<< <<"v">> >>)).nodes,
           n, <<"h", "e", "l", "p">>, BooleanOption(<<>>)).nodes

\* cli.command('r').alias('a').command('a').alias('r'): the CLI, its
\* sub-command r with the alias a, and r's sub-command a with the alias r
Skeleton ==
    LET withR == command(<<NewCommand(cli)>>, 1, <<"r">>, NoNode)
        aliasR == alias(withR.nodes, withR.returned, {<<"a">>})
        withA == command(aliasR.nodes, withR.returned, <<"a">>, NoNode)
    IN alias(withA.nodes, withA.returned, {<<"r">>}).nodes

\* every command gets the positionals of the script; the commands of
\* withOptions get the three options, those of withHandler an action
Tree(script, withOptions, withHandler) ==
    LET RECURSIVE Declare(_, _)
        Declare(ns, n) ==
            IF n = 0 THEN ns
            ELSE LET a == DeclareArguments(Declare(ns, n - 1), n, script, Len(script))
                     o == IF n \in withOptions THEN DeclareOptions(a, n) ELSE a
                 IN IF n \in withHandler THEN action(o, n, "h1").nodes ELSE o
    IN Declare(Skeleton, Len(Skeleton))

Trees ==
    {Tree(script, {1, 3}, {1, 3}) : script \in ArgScripts}
    \cup {Tree(script, {2}, {1}) : script \in ArgScripts}

----------------------------------------------------------------------------
(* The steps of CLI.run *)

Tokens ==
    {<<"r">>, <<"a">>, <<"-", "-", "x">>, <<"-", "-", "t">>, <<"-", "-">>,
     <<"-", "-", "h", "e", "l", "p">>, <<"-", "v">>}

Argvs(T) == UNION {[1..n -> T] : n \in 0..MaxArgv}

HandlerBehaviours == {"returns", "throws", "throwsCommandError"}

InitRun ==
    /\ nodes \in Trees
    /\ lastCall = Call("new", 1, cli, NoConfig, NoNode, NoHandler, Result(nodes, "none", 1))
    /\ calls = 0
    /\ variant \in Variants
    /\ pc = "ready"
    /\ argv = <<>>
    /\ tokens = <<>>
    /\ activeCommand = NoNode
    /\ args = <<>>
    /\ options = <<>>
    /\ positionalIndex = 0
    /\ endOfFlags = FALSE
    /\ i = 0
    /\ disp = <<>>
    /\ outcome = NoOutcome
    /\ Idle

\* tokens[0] ?? ''
Next0(toks) == IF Len(toks) > 0 THEN Head(toks) ELSE <<>>

\* run(argv): let command = this; const tokens = argv.slice()
RunCall(T) ==
    /\ pc = "ready"
    /\ \E a \in Argvs(T) :
          /\ argv' = a
          /\ tokens' = a
    /\ activeCommand' = 1
    /\ pc' = "descent"
    /\ UNCHANGED <<buildVars, pureVars, variant, args, options, positionalIndex, endOfFlags,
                   i, disp, outcome>>

\* a shift that removes nothing
shift_keep(toks) == toks

\* tokens.shift(): the array without its first element
shift(toks) == Tail(toks)

\* tokens bound to the caller's array itself
tokensIsCopy_alias == FALSE

\* const tokens = argv.slice(): tokens is an array of its own
tokensIsCopy == TRUE

\* one iteration of the sub-command loop that finds a sub-command;
\* tokens.shift() changes the caller's array too unless tokens is a copy
Descend ==
    /\ pc = "descent"
    /\ Len(tokens) > 0
    /\ GetSub(nodes, activeCommand, Next0(tokens)) # NoNode
    /\ tokens' = shift(tokens)
    /\ argv' = IF tokensIsCopy THEN argv ELSE shift(tokens)
    /\ activeCommand' = GetSub(nodes, activeCommand, Next0(tokens))
    /\ UNCHANGED <<buildVars, pureVars, variant, pc, args, options, positionalIndex,
                   endOfFlags, i, disp, outcome>>

\* the end of the sub-command loop, and step 2 of run
Resolved ==
    /\ pc = "descent"
    /\ ~(Len(tokens) > 0 /\ GetSub(nodes, activeCommand, Next0(tokens)) # NoNode)
    /\ args' = <<>>
    /\ options' = <<>>
    /\ positionalIndex' = 0
    /\ endOfFlags' = FALSE
    /\ i' = 1
    /\ pc' = "scan"
    /\ UNCHANGED <<buildVars, pureVars, variant, argv, tokens, activeCommand, disp, outcome>>

\* catch (e) of run, entered after the run has come to the outcome so far:
\* the error is thrown on to the caller, or printed before process.exit(1)
Caught(sofar, err, fromAction, fromKLY) ==
    IF rethrown(fromAction, fromKLY)
    THEN /\ outcome' = [sofar EXCEPT !.thrown = TRUE, !.error = err]
         /\ pc' = "threw"
    ELSE /\ outcome' = [sofar EXCEPT !.printed = "error", !.error = err, !.exitCode = "1"]
         /\ pc' = "exited"

\* catch (e) of run, for an error of the engine: a CommandError or a
\* ParsingError, which carry fromKLY and no fromAction
Report(err) == Caught(outcome, err, FALSE, TRUE)

\* one iteration of the token loop
ScanToken ==
    /\ pc = "scan"
    /\ i <= Len(tokens)
    /\ LET r == scanToken(variant, nodes[activeCommand], tokens,
                          ScanState(args, options, positionalIndex, endOfFlags, i))
       IN /\ args' = r.st.args
          /\ options' = r.st.options
          /\ positionalIndex' = r.st.positionalIndex
          /\ endOfFlags' = r.st.endOfFlags
          /\ i' = r.st.i
          /\ disp' = Append(disp, [index |-> i, token |-> tokens[i], as |-> r.as,
                                   name |-> r.name])
          /\ IF r.kind = "continue"
             THEN UNCHANGED <<pc, outcome>>
             ELSE IF r.kind = "exit"
             THEN /\ outcome' = [outcome EXCEPT !.printed = r.as,
                                                !.helpOf = activeCommand,
                                                !.exitCode = "0"]
                  /\ pc' = "exited"
             ELSE Report(r.err)
    /\ UNCHANGED <<buildVars, pureVars, variant, argv, tokens, activeCommand>>

\* steps 4 to 7 of run, once the token loop has ended
Finish ==
    /\ pc = "scan"
    /\ i > Len(tokens)
    /\ LET node == nodes[activeCommand]
           withArgs == applyDefaults(node.argumentsDef, args, Len(node.argumentsDef))
           withOptions == applyDefaults(node.optionsDef, options, Len(node.optionsDef))
           missing == missingRequired(node.argumentsDef, withArgs)
           firstMissing == CHOOSE k \in missing : \A j \in missing : k <= j
       IN /\ args' = withArgs
          /\ options' = withOptions
          /\ IF missing # {}
             THEN Report(CommandError("MissingRequiredArgument",
                                      node.argumentsDef[firstMissing].name))
             ELSE IF ~hasHandler(node)
             THEN /\ outcome' = [outcome EXCEPT !.printed = "help",
                                                !.helpOf = activeCommand]
                  /\ pc' = "returned"
             ELSE \E behaviour \in HandlerBehaviours :
                    LET called == [outcome EXCEPT !.handlerCalls = @ + 1,
                                                  !.handlerArgs = withArgs,
                                                  !.handlerOptions = withOptions]
                    IN IF behaviour = "returns"
                       THEN /\ outcome' = called
                            /\ pc' = "returned"
                       ELSE Caught(called,
                                   CommandError(IF behaviour = "throws"
                                                THEN "FromAction"
                                                ELSE "FromActionKLY", Undefined),
                                   TRUE, behaviour = "throwsCommandError")
    /\ UNCHANGED <<buildVars, pureVars, variant, argv, tokens, activeCommand, positionalIndex,
                   endOfFlags, i, disp>>

Next == RunCall(Tokens) \/ Descend \/ Resolved \/ ScanToken \/ Finish

Init == InitRun

Spec == Init /\ [][Next]_vars

----------------------------------------------------------------------------
(* Runs over commands whose options take values *)

\* { type: 'boolean', alias: ['m'], defaultValue: false }
Minify == Config("boolean", FALSE, BooleanValue(FALSE), << <<"m">> >>, <<>>)

\* { type: 'string' }  and  { type: 'string', defaultValue: 'd' }
TargetRequired == Config("string", FALSE, UndefinedValue, <<>>, <<>>)
TargetDefaulted == Config("string", FALSE, StringValue(<<"d">>), <<>>, <<>>)

\* { type: 'choice', choices: ['a'], optional: true }
Choice == Config("choice", TRUE, UndefinedValue, <<>>, << <<"a">> >>)

\* the positional declarations of the sub-command: none, or p alone
OptionArgScripts == {<<>>, <<Choice>>, <<Defaulted>>}

TargetConfigs == {TargetRequired, TargetDefaulted}

\* .argument('p', ...).option('x', Minify).option('t', target)
\* .option('c', Choice).action(h1) on node n
DeclareValued(ns, n, script, target) ==
    LET withArgs == DeclareArguments(ns, n, script, Len(script))
        withX == option(withArgs, n, <<"x">>, Minify).nodes
        withT == option(withX, n, <<"t">>, target).nodes
        withC == option(withT, n, <<"c">>, Choice).nodes
    IN action(withC, n, "h1").nodes

\* the CLI and its sub-command b, both with the positionals of the script,
\* the options x, t and c, and an action
OptionTree(script, target) ==
    LET withB == command(<<NewCommand(cli)>>, 1, <<"b">>, NoNode)
    IN DeclareValued(DeclareValued(withB.nodes, 1, script, target),
                     withB.returned, script, target)

OptionTrees == {OptionTree(script, target) : script \in OptionArgScripts, target \in TargetConfigs}

OptionTokens ==
    {<<"b">>, <<"a">>, <<"a", " ">>, <<>>, <<"-", "m">>, <<"-", "-", "x">>,
     <<"-", "-", "n", "o", "-", "x">>, <<"-", "-", "x", "=", "0">>,
     <<"-", "-", "t">>, <<"-", "-", "c">>, <<"-", "-", "c", "=", "a">>}

InitOptions ==
    /\ nodes \in OptionTrees
    /\ lastCall = Call("new", 1, cli, NoConfig, NoNode, NoHandler, Result(nodes, "none", 1))
    /\ calls = 0
    /\ variant \in Variants
    /\ pc = "ready"
    /\ argv = <<>>
    /\ tokens = <<>>
    /\ activeCommand = NoNode
    /\ args = <<>>
    /\ options = <<>>
    /\ positionalIndex = 0
    /\ endOfFlags = FALSE
    /\ i = 0
    /\ disp = <<>>
    /\ outcome = NoOutcome
    /\ Idle

NextOptions == RunCall(OptionTokens) \/ Descend \/ Resolved \/ ScanToken \/ Finish

SpecOptions == InitOptions /\ [][NextOptions]_vars

----------------------------------------------------------------------------
(* Properties of the resolution *)

Running == pc \in {"scan", "exited", "returned", "threw"}

\* the children of node n registered under exactly the name t
ChildrenNamed(ns, n, t) ==
    {ns[n].commands[k].value : k \in {j \in 1..Len(ns[n].commands) : ns[n].commands[j].name = t}}

\* the node reached from n along path by child names alone, NoNode if none
RECURSIVE Walk(_, _, _)
Walk(ns, n, path) ==
    IF path = <<>> THEN n
    ELSE IF ChildrenNamed(ns, n, Head(path)) = {} THEN NoNode
    ELSE Walk(ns, CHOOSE c \in ChildrenNamed(ns, n, Head(path)) : TRUE, Tail(path))

\* the length of the longest prefix of argv that is a path of child names
LongestPath ==
    CHOOSE k \in 0..Len(argv) :
        /\ Walk(nodes, 1, SubSeq(argv, 1, k)) # NoNode
        /\ \A j \in (k + 1)..Len(argv) : Walk(nodes, 1, SubSeq(argv, 1, j)) = NoNode

\* C5: the active command is the node reached by consuming the longest prefix
\* of argv whose tokens are child names of the node reached so far; the tokens
\* after it, and the aliases of commands, never cause descent.
C5_LongestPrefixDescent ==
    Running =>
        /\ activeCommand = Walk(nodes, 1, SubSeq(argv, 1, LongestPath))
        /\ tokens = SubSeq(argv, LongestPath + 1, Len(argv))

\* after one descent the next token is an alias of a child, which stops the
\* descent, and the token after it is the name of a child
C5_Witness ==
    /\ pc = "scan"
    /\ Len(argv) = Len(tokens) + 1
    /\ Len(tokens) >= 2
    /\ \E k \in 1..Len(nodes[activeCommand].commands) :
           tokens[1] \in nodes[nodes[activeCommand].commands[k].value].aliases
    /\ ChildrenNamed(nodes, activeCommand, tokens[2]) # {}

\* the tokens that the scan has consumed as positionals, in order
RECURSIVE ConsumedTokens(_)
ConsumedTokens(d) ==
    IF d = <<>> THEN <<>>
    ELSE IF d[Len(d)].as = "positional"
    THEN Append(ConsumedTokens(SubSeq(d, 1, Len(d) - 1)), d[Len(d)].token)
    ELSE ConsumedTokens(SubSeq(d, 1, Len(d) - 1))

ValueOf(m, name) ==
    IF \E k \in 1..Len(m) : m[k].name = name
    THEN m[CHOOSE k \in 1..Len(m) : m[k].name = name].value
    ELSE UndefinedValue

EngineErrors ==
    {"UnknownOption", "UnexpectedOption", "UnexpectedArgument", "MissingOptionValue",
     "MissingRequiredArgument", "InvalidValue"}

\* C6: the k-th token consumed as a positional is bound to the k-th declared
\* positional and the cursor counts the consumed tokens, so the positionals
\* bound by tokens are a prefix of the declaration order; a run that ends
\* without an engine error or a reserved flag calls the handler of the active
\* command exactly once, with these bindings.
C6_PositionalsInDeclarationOrder ==
    Running =>
        LET defs == nodes[activeCommand].argumentsDef
            consumed == ConsumedTokens(disp)
        IN /\ positionalIndex = Len(consumed)
           /\ positionalIndex <= Len(defs)
           /\ \A k \in 1..Len(consumed) :
                 ValueOf(args, defs[k].name) =
                     parseValue(defs[k].value.type, consumed[k], defs[k].value.choices).value
           /\ pc = "scan" =>
                 {args[k].name : k \in 1..Len(args)} = {defs[k].name : k \in 1..Len(consumed)}
           /\ outcome.handlerCalls <= 1
           /\ (/\ pc \in {"returned", "threw", "exited"}
               /\ outcome.error.kind \notin EngineErrors
               /\ outcome.printed \notin {"version", "help"}) =>
                 /\ outcome.handlerCalls = 1
                 /\ \A k \in 1..Len(consumed) :
                       ValueOf(outcome.handlerArgs, defs[k].name) = ValueOf(args, defs[k].name)

\* the handler was called once with two positionals bound from two tokens
C6_Witness ==
    /\ pc = "returned"
    /\ outcome.handlerCalls = 1
    /\ positionalIndex = 2
    /\ Len(tokens) = 2
    /\ tokens[1] # tokens[2]
    /\ ValueOf(outcome.handlerArgs, <<"p">>) = StringValue(tokens[1])
    /\ ValueOf(outcome.handlerArgs, <<"q">>) = StringValue(tokens[2])

\* the scan is about to take the token at i
AtToken == pc = "scan" /\ i <= Len(tokens)

Current == parseToken(variant, tokens[i])

ReservedKeys ==
    {<<"v", "e", "r", "s", "i", "o", "n">>, <<"v">>, <<"h", "e", "l", "p">>, <<"h">>}

HasPending == positionalIndex < Len(nodes[activeCommand].argumentsDef)
Pending == nodes[activeCommand].argumentsDef[positionalIndex + 1]

\* a flag-shaped token meets a pending positional before any "--"
FlagMeetsPending == AtToken /\ HasPending /\ Current.isFlag /\ ~endOfFlags

\* the run ends here with the unexpected-option error naming the token, and
\* nothing is bound or called
FailsUnexpectedOption ==
    /\ pc' = "exited"
    /\ outcome'.printed = "error"
    /\ outcome'.exitCode = "1"
    /\ outcome'.error = [kind |-> "UnexpectedOption", subject |-> tokens[i]]
    /\ outcome'.handlerCalls = 0
    /\ args' = args
    /\ options' = options
    /\ positionalIndex' = positionalIndex

\* C7, as stated: a flag-shaped token that meets a pending required positional
\* before any "--" fails the run with the unexpected-option error naming the
\* token; nothing is bound and the handler is not invoked.
C7_RequiredRefusesEveryFlag ==
    [][(FlagMeetsPending /\ RequiredDef(Pending.value)) => FailsUnexpectedOption]_vars

\* C7, amended: the same, for a token whose key is not one of the reserved
\* version, v, help, h.
C7_RequiredRefusesFlag ==
    [][(/\ FlagMeetsPending
        /\ RequiredDef(Pending.value)
        /\ Current.key \notin ReservedKeys) => FailsUnexpectedOption]_vars

\* the run failed on a flag-shaped token met by a required positional, on a
\* command that declares the option the token names
C7_Witness ==
    /\ pc = "exited"
    /\ outcome.error.kind = "UnexpectedOption"
    /\ outcome.error.subject = <<"-", "-", "x">>
    /\ \E k \in 1..Len(nodes[activeCommand].optionsDef) :
           nodes[activeCommand].optionsDef[k].name = <<"x">>
    /\ RequiredDef(Pending.value)

OptionOutcomes == {"UnknownOption", "MissingOptionValue", "InvalidValue"}

\* the token is handled as an option: an option is bound, or the run fails
\* with an error of the option handling; the positional stays as it was
HandledAsOption ==
    /\ args' = args
    /\ positionalIndex' = positionalIndex
    /\ \/ /\ pc' = "scan"
          /\ i' > i
          /\ \E k \in 1..Len(nodes[activeCommand].optionsDef) :
                /\ ValueOf(options', nodes[activeCommand].optionsDef[k].name) # UndefinedValue
                /\ \A j \in 1..Len(nodes[activeCommand].optionsDef) :
                      j # k => ValueOf(options', nodes[activeCommand].optionsDef[j].name)
                                   = ValueOf(options, nodes[activeCommand].optionsDef[j].name)
       \/ /\ pc' = "exited"
          /\ outcome'.exitCode = "1"
          /\ outcome'.error.kind \in OptionOutcomes
          /\ outcome'.handlerCalls = 0
    /\ Len(nodes[activeCommand].optionsDef) = 0 =>
          /\ pc' = "exited"
          /\ outcome'.error = [kind |-> "UnknownOption", subject |-> tokens[i]]

\* C8, as stated: a flag-shaped token that meets a pending optional or
\* defaulted positional before any "--" is handled as an option, is not bound
\* as the positional and does not move the cursor; on a command without
\* options the run fails with the unknown-option error.
C8_OptionalYieldsToEveryFlag ==
    [][(FlagMeetsPending /\ ~RequiredDef(Pending.value)) => HandledAsOption]_vars

\* C8, amended: the same, for a token whose key is not one of the reserved
\* version, v, help, h.
C8_OptionalYieldsToFlag ==
    [][(/\ FlagMeetsPending
        /\ ~RequiredDef(Pending.value)
        /\ Current.key \notin ReservedKeys) => HandledAsOption]_vars

\* a flag was bound as an option while a defaulted positional was pending,
\* and the positional is unbound
C8_Witness ==
    /\ pc = "scan"
    /\ HasPending
    /\ Pending.value.defaultValue # UndefinedValue
    /\ disp # <<>>
    /\ disp[Len(disp)].as = "option"
    /\ ValueOf(args, Pending.name) = UndefinedValue
    /\ ValueOf(options, <<"x">>) = BooleanValue(TRUE)

\* C9: the "--" token takes no positional slot, and no token after it is
\* handled as an option, a negation or a reserved help or version flag.
C9_EndOfFlagsStopsFlags ==
    /\ \A k \in 1..Len(disp) :
          disp[k].as = "endOfFlags" => disp[k].name = Undefined
    /\ \A j, k \in 1..Len(disp) :
          (j < k /\ disp[j].as = "endOfFlags") =>
              disp[k].as \notin {"option", "optionWithNext", "version", "help"}

----------------------------------------------------------------------------
(* Properties of the option handling *)

\* the name in a token of the form --name or -name
PlainFlagName(tok) ==
    IF Len(tok) >= 2 /\ tok[2] = "-" THEN SubSeq(tok, 3, Len(tok)) ELSE SubSeq(tok, 2, Len(tok))

\* the token is one or two dashes followed by one or more word characters
IsPlainFlag(tok) ==
    /\ Len(tok) >= 2
    /\ tok[1] = "-"
    /\ PlainFlagName(tok) # <<>>
    /\ \A k \in 1..Len(PlainFlagName(tok)) : PlainFlagName(tok)[k] \in WordChars

\* no "--" has been seen and no required positional is pending, so that a
\* flag with a name that is not reserved goes to the option handling
OptionsOpen ==
    /\ AtToken
    /\ ~endOfFlags
    /\ ~(HasPending /\ RequiredDef(Pending.value))

OptionDefs == nodes[activeCommand].optionsDef

\* the declared options that a name denotes: the one of that canonical name,
\* otherwise those that list it as an alias
Denoted(name) ==
    IF \E k \in 1..Len(OptionDefs) : OptionDefs[k].name = name
    THEN {k \in 1..Len(OptionDefs) : OptionDefs[k].name = name}
    ELSE {k \in 1..Len(OptionDefs) :
             \E j \in 1..Len(OptionDefs[k].value.alias) : OptionDefs[k].value.alias[j] = name}

\* C11: a flag token --name or -name whose name is a declared option, or else
\* an alias of one, is handled as that option and binds under its canonical
\* name, never under the alias (a boolean option binds true); a name that is
\* neither fails the run with the unknown-option error.
C11_OptionNameResolution ==
    [][(/\ OptionsOpen
        /\ IsPlainFlag(tokens[i])
        /\ PlainFlagName(tokens[i]) \notin ReservedKeys) =>
          LET owners == Denoted(PlainFlagName(tokens[i])) IN
          IF owners = {}
          THEN /\ pc' = "exited"
               /\ outcome'.error = [kind |-> "UnknownOption", subject |-> tokens[i]]
          ELSE /\ args' = args
               /\ positionalIndex' = positionalIndex
               /\ outcome'.error.kind \in {"none", "MissingOptionValue", "InvalidValue"}
               /\ \A j \in 1..Len(options') :
                     \E k \in 1..Len(OptionDefs) : OptionDefs[k].name = options'[j].name
               /\ pc' = "scan" =>
                     \E k \in owners :
                        /\ ValueOf(options', OptionDefs[k].name) # UndefinedValue
                        /\ OptionDefs[k].value.type = "boolean" =>
                              ValueOf(options', OptionDefs[k].name) = BooleanValue(TRUE)]_vars

\* the token at i is a flag without inline value that denotes a boolean
\* option, and goes to the option handling
BooleanFlagTaken ==
    /\ OptionsOpen
    /\ Current.isFlag
    /\ Current.value = Undefined
    /\ Current.key \notin ReservedKeys
    /\ \E k \in Denoted(Current.key) : OptionDefs[k].value.type = "boolean"

\* C12: a boolean option token without inline value binds true, or false when
\* it is a --no-x negation, under the option's canonical name, and the scan
\* goes on with the token right after it, which it has not consumed.
C12_BooleanNeverConsumes ==
    [][BooleanFlagTaken =>
          LET k == CHOOSE k \in Denoted(Current.key) : \A j \in Denoted(Current.key) : k <= j IN
          /\ pc' = "scan"
          /\ i' = i + 1
          /\ ValueOf(options', OptionDefs[k].name) =
                 BooleanValue(~StartsWith(tokens[i], <<"-", "-", "n", "o", "-">>))
          /\ args' = args
          /\ positionalIndex' = positionalIndex
          /\ outcome' = outcome]_vars

\* --no-x has bound x to false and the token after it was taken as a token of
\* its own, here as the positional
C12_Witness ==
    /\ pc = "scan"
    /\ Len(disp) = 2
    /\ disp[1].token = <<"-", "-", "n", "o", "-", "x">>
    /\ disp[1].as = "option"
    /\ disp[2].index = disp[1].index + 1
    /\ disp[2].as = "positional"
    /\ ValueOf(options, <<"x">>) = BooleanValue(FALSE)
    /\ ValueOf(args, <<"p">>) = StringValue(<<"a">>)

\* C13: every value bound to a boolean option is a boolean; a boolean flag
\* with an inline value binds the boolean that the value denotes.
C13_BooleanOptionsBindBooleans ==
    Running =>
        \A k \in 1..Len(OptionDefs) :
            OptionDefs[k].value.type = "boolean" =>
                ValueOf(options, OptionDefs[k].name).t \in {"undefined", "boolean"}

\* the token at i is a flag without inline value that denotes an option
\* which is not boolean, and goes to the option handling
ValueFlagTaken ==
    /\ OptionsOpen
    /\ Current.isFlag
    /\ Current.value = Undefined
    /\ Current.key \notin ReservedKeys
    /\ Denoted(Current.key) # {}
    /\ \A k \in Denoted(Current.key) : OptionDefs[k].value.type # "boolean"

\* C14: a non-boolean option token without inline value takes the next token
\* as its value, which is then not scanned as a token of its own: the option
\* is bound and the scan skips that token, or the value fails its coercion;
\* the run fails with the missing-option-value error exactly when there is
\* no next token.
C14_NextTokenIsTheValue ==
    [][ValueFlagTaken =>
          LET k == CHOOSE k \in Denoted(Current.key) : \A j \in Denoted(Current.key) : k <= j IN
          /\ args' = args
          /\ positionalIndex' = positionalIndex
          /\ (pc' = "exited" /\ outcome'.error.kind = "MissingOptionValue") <=> i = Len(tokens)
          /\ i < Len(tokens) =>
                \/ /\ pc' = "scan"
                   /\ i' = i + 2
                   /\ ValueOf(options', OptionDefs[k].name) # UndefinedValue
                \/ /\ pc' = "exited"
                   /\ outcome'.error = [kind |-> "InvalidValue", subject |-> tokens[i + 1]]]_vars

Member(text, choices) == \E k \in 1..Len(choices) : choices[k] = text

\* the step binds name in the map to the trimmed text and the scan goes on
AcceptedAs(before, after, name, text) ==
    /\ pc' = "scan"
    /\ ValueOf(after, name) = StringValue(TrimEnd(TrimStart(text)))
    /\ \A k \in 1..Len(before) :
          before[k].name # name => ValueOf(after, before[k].name) = before[k].value

\* the step ends the run with a failure and binds nothing
Refused ==
    /\ pc' = "exited"
    /\ outcome'.exitCode = "1"
    /\ outcome'.handlerCalls = 0
    /\ args' = args
    /\ options' = options

ChoiceRule(before, after, def, text) ==
    IF Member(TrimEnd(TrimStart(text)), def.value.choices)
    THEN AcceptedAs(before, after, def.name, text)
    ELSE Refused

\* a token that is not a flag meets a pending positional of type choice
ChoicePositionalTaken ==
    /\ AtToken
    /\ HasPending
    /\ Pending.value.type = "choice"
    /\ ~Current.isFlag
    /\ ~Current.isEndOfFlags

\* a flag with an inline value that denotes an option of type choice
ChoiceInlineTaken ==
    /\ OptionsOpen
    /\ Current.isFlag
    /\ Current.value # Undefined
    /\ Current.key \notin ReservedKeys
    /\ \E k \in Denoted(Current.key) : OptionDefs[k].value.type = "choice"

\* a flag without inline value that denotes an option of type choice, with a
\* token after it
ChoiceNextTaken ==
    /\ ValueFlagTaken
    /\ i < Len(tokens)
    /\ \E k \in Denoted(Current.key) : OptionDefs[k].value.type = "choice"

\* C15: a value for a choice-typed positional or option is accepted, and
\* bound as its trimmed text, exactly when the trimmed text is one of the
\* declared choices, whether it comes as a positional token, inline or as the
\* token after the flag; otherwise the run fails and binds nothing.
C15_ChoiceAcceptedExactly ==
    [][/\ ChoicePositionalTaken => ChoiceRule(args, args', Pending, tokens[i])
       /\ ChoiceInlineTaken =>
             ChoiceRule(options, options',
                        OptionDefs[CHOOSE k \in Denoted(Current.key) : TRUE], Current.value)
       /\ ChoiceNextTaken =>
             ChoiceRule(options, options',
                        OptionDefs[CHOOSE k \in Denoted(Current.key) : TRUE], tokens[i + 1])]_vars

\* C16: the handler only ever runs with every required positional and every
\* required option of the active command bound.
C16_HandlerHasEveryRequired ==
    (Running /\ outcome.handlerCalls > 0) =>
        /\ \A k \in 1..Len(nodes[activeCommand].argumentsDef) :
              RequiredDef(nodes[activeCommand].argumentsDef[k].value) =>
                  ValueOf(outcome.handlerArgs, nodes[activeCommand].argumentsDef[k].name)
                      # UndefinedValue
        /\ \A k \in 1..Len(OptionDefs) :
              RequiredDef(OptionDefs[k].value) =>
                  ValueOf(outcome.handlerOptions, OptionDefs[k].name) # UndefinedValue

\* the token scan has ended without error
ScanEnded == pc = "scan" /\ i > Len(tokens)

\* in the step, every definition that a token has bound keeps its value and
\* every other one that declares a default is bound to the default
DefaultsFill(defs, before, after) ==
    \A k \in 1..Len(defs) :
        IF ValueOf(before, defs[k].name) # UndefinedValue
        THEN ValueOf(after, defs[k].name) = ValueOf(before, defs[k].name)
        ELSE defs[k].value.defaultValue.t # "undefined" =>
                 ValueOf(after, defs[k].name) = defs[k].value.defaultValue

\* C17: when the token scan ends without error, every declared positional and
\* option that no token has bound and that declares a default is bound to the
\* default, a value bound from a token is never replaced, and the handler, if
\* invoked, receives these bindings.
C17_DefaultsFillUnbound ==
    [][ScanEnded =>
          /\ DefaultsFill(nodes[activeCommand].argumentsDef, args, args')
          /\ DefaultsFill(OptionDefs, options, options')
          /\ outcome'.handlerCalls > 0 =>
                /\ outcome'.handlerArgs = args'
                /\ outcome'.handlerOptions = options']_vars

\* the handler ran with the option t bound from a token although t declares
\* another default, and with the defaults of the positional p and the option x
C17_Witness ==
    /\ pc = "returned"
    /\ outcome.handlerCalls = 1
    /\ \E k \in 1..Len(OptionDefs) :
          /\ OptionDefs[k].name = <<"t">>
          /\ OptionDefs[k].value.defaultValue = StringValue(<<"d">>)
    /\ ValueOf(outcome.handlerOptions, <<"t">>) = StringValue(<<"a">>)
    /\ ValueOf(outcome.handlerOptions, <<"x">>) = BooleanValue(FALSE)
    /\ ValueOf(outcome.handlerArgs, <<"p">>) = StringValue(<<"d">>)
    /\ \A k \in 1..Len(disp) : disp[k].name \notin {<<"x">>, <<"p">>}

Ended == {"exited", "returned", "threw"}

ScanErrors == EngineErrors \ {"MissingRequiredArgument"}

\* C18: a run reports at most one engine error, the first failure of the
\* left-to-right scan: the scan takes the tokens in order and ends at its
\* first failure, nothing happens after the run has ended, the
\* missing-required error is reported only after a scan without failure, an
\* engine error means the handler was not invoked, and the handler is invoked
\* at most once.
C18_FirstFailureOnly ==
    [][/\ pc \notin Ended
       /\ outcome'.handlerCalls <= 1
       /\ outcome'.error.kind \in EngineErrors =>
             /\ pc' = "exited"
             /\ outcome'.exitCode = "1"
             /\ outcome'.handlerCalls = 0
       /\ \A j, k \in 1..Len(disp') : j < k => disp'[j].index < disp'[k].index
       /\ \A k \in 1..Len(disp') :
             disp'[k].as = "error" =>
                 /\ k = Len(disp')
                 /\ pc' = "exited"
                 /\ outcome'.error.kind \in ScanErrors
       /\ outcome'.error.kind = "MissingRequiredArgument" =>
             /\ i' > Len(tokens')
             /\ \A k \in 1..Len(disp') : disp'[k].as # "error"
       /\ outcome'.error.kind \in ScanErrors =>
             /\ disp' # <<>>
             /\ disp'[Len(disp')].as = "error"]_vars

\* the scan failed on its second token, on a command with a handler: the
\* third token was not scanned, the required positional that is still
\* unbound was not reported, and the handler was not invoked
C18_Witness ==
    /\ pc = "exited"
    /\ outcome.error.kind \in ScanErrors
    /\ Len(disp) = 2
    /\ Len(tokens) = 3
    /\ nodes[activeCommand].handler # NoHandler
    /\ HasPending
    /\ RequiredDef(Pending.value)
    /\ outcome.handlerCalls = 0

\* the run printed the error as a diagnostic and ended with a failure exit
Diagnosed ==
    /\ pc = "exited"
    /\ outcome.printed = "error"
    /\ outcome.exitCode = "1"
    /\ ~outcome.thrown

\* the error went on to the caller of run, and nothing was printed
Propagated ==
    /\ pc = "threw"
    /\ outcome.thrown
    /\ outcome.printed = "none"
    /\ outcome.exitCode = "none"

\* C19, as stated: an error raised inside the handler propagates to the
\* caller of run and is not reported as a diagnostic; an engine error is
\* reported as a diagnostic and never propagated.
C19_HandlerErrorsAlwaysPropagate ==
    Running =>
        /\ outcome.error.kind \in {"FromAction", "FromActionKLY"} => Propagated
        /\ outcome.error.kind \in EngineErrors => Diagnosed

\* C19, amended: an error raised inside the handler propagates to the caller
\* of run unless it is one of the library's own errors (a CommandError or a
\* ParsingError, which carry fromKLY), which is reported as a diagnostic like
\* an engine error; an engine error is reported as a diagnostic, without the
\* handler having run, and is never propagated.
C19_ForeignHandlerErrorsPropagate ==
    Running =>
        /\ outcome.error.kind = "FromAction" => (Propagated /\ outcome.handlerCalls = 1)
        /\ outcome.error.kind = "FromActionKLY" => (Diagnosed /\ outcome.handlerCalls = 1)
        /\ outcome.error.kind \in EngineErrors => (Diagnosed /\ outcome.handlerCalls = 0)
        /\ outcome.thrown => outcome.error.kind = "FromAction"

\* below the root, the handler was invoked with a positional bound from a
\* token and its error went on to the caller
C19_Witness ==
    /\ Propagated
    /\ outcome.error.kind = "FromAction"
    /\ outcome.handlerCalls = 1
    /\ activeCommand # 1
    /\ outcome.handlerArgs # <<>>
    /\ \E k \in 1..Len(disp) : disp[k].as = "positional"

\* every required positional of the active command is bound
RequiredBound(bound) ==
    \A k \in 1..Len(nodes[activeCommand].argumentsDef) :
        RequiredDef(nodes[activeCommand].argumentsDef[k].value) =>
            ValueOf(bound, nodes[activeCommand].argumentsDef[k].name) # UndefinedValue

\* C20: when the scan has ended without error, no required positional is
\* missing and the active command declares no handler, the run prints the
\* help of the active command, invokes no handler and returns normally,
\* without an error or an exit code.
C20_NoHandlerRendersHelp ==
    [][(/\ ScanEnded
        /\ RequiredBound(args)
        /\ nodes[activeCommand].handler = "none") =>
          /\ pc' = "returned"
          /\ outcome'.printed = "help"
          /\ outcome'.helpOf = activeCommand
          /\ outcome'.handlerCalls = 0
          /\ outcome'.exitCode = "none"
          /\ outcome'.error.kind = "none"
          /\ ~outcome'.thrown]_vars

\* the run descended from the CLI, which has a handler, to a sub-command
\* without one, bound its positional from a token and printed its help
C20_Witness ==
    /\ pc = "returned"
    /\ outcome.printed = "help"
    /\ outcome.helpOf = activeCommand
    /\ activeCommand # 1
    /\ nodes[1].handler # "none"
    /\ nodes[activeCommand].handler = "none"
    /\ outcome.handlerCalls = 0
    /\ \E k \in 1..Len(disp) : disp[k].as = "positional"

----------------------------------------------------------------------------
(* parseToken applied on its own *)

MaxToken == 6

TokenChars == {"-", "=", "n", "o", " "}

Texts(chars, n) == UNION {[1..k -> chars] : k \in 0..n}

\* parseToken(token)
ParseToken ==
    /\ Idle
    /\ \E token \in Texts(TokenChars, MaxToken) :
          /\ given' = [fn |-> "parseToken", text |-> token]
          /\ result' = parseToken(variant, token)
    /\ UNCHANGED <<buildVars, variant, runVars>>

SpecClassify == InitBuild /\ [][ParseToken]_vars

\* the text without the white space around it
RECURSIVE Strip(_)
Strip(t) ==
    IF t = <<>> THEN t
    ELSE IF t[1] \in {" ", "\t", "\n", "\r"} THEN Strip(SubSeq(t, 2, Len(t)))
    ELSE IF t[Len(t)] \in {" ", "\t", "\n", "\r"} THEN Strip(SubSeq(t, 1, Len(t) - 1))
    ELSE t

HasPrefix(t, p) == Len(t) >= Len(p) /\ \A k \in 1..Len(p) : t[k] = p[k]

\* the position of the first "=" of t, 0 if there is none
FirstEquals(t) ==
    IF \E k \in 1..Len(t) : t[k] = "="
    THEN CHOOSE k \in 1..Len(t) : t[k] = "=" /\ \A j \in 1..(k - 1) : t[j] # "="
    ELSE 0

\* t[from..to] is one or more word characters
WordRun(t, from, to) == from <= to /\ \A k \in from..to : t[k] \in WordChars

\* the class of a text by the rules of the classifier, the first that matches
TokenClass(t) ==
    IF t = <<"-", "-">> THEN "endOfFlags"
    ELSE IF HasPrefix(t, <<"-", "-", "n", "o", "-">>) THEN "negation"
    ELSE IF HasPrefix(t, <<"-", "-">>) /\ FirstEquals(t) > 0 THEN "longValue"
    ELSE IF HasPrefix(t, <<"-", "-">>) THEN "long"
    ELSE IF HasPrefix(t, <<"-">>) /\ WordRun(t, 2, FirstEquals(t) - 1) THEN "shortValue"
    ELSE IF HasPrefix(t, <<"-">>) /\ WordRun(t, 2, Len(t)) THEN "short"
    ELSE "positional"

\* the key and the inline value that the rules give a text of each class
TokenKey(t) ==
    CASE TokenClass(t) = "negation" -> SubSeq(t, 6, Len(t))
      [] TokenClass(t) = "longValue" -> SubSeq(t, 3, FirstEquals(t) - 1)
      [] TokenClass(t) = "long" -> SubSeq(t, 3, Len(t))
      [] TokenClass(t) = "shortValue" -> SubSeq(t, 2, FirstEquals(t) - 1)
      [] TokenClass(t) = "short" -> SubSeq(t, 2, Len(t))
      [] OTHER -> <<"undefined">>

TokenValue(t) ==
    IF TokenClass(t) \in {"longValue", "shortValue"}
    THEN SubSeq(t, FirstEquals(t) + 1, Len(t))
    ELSE <<"undefined">>

\* C21: every text is classified, by the first rule that matches it without
\* the white space around it, as end-of-flags marker, negation, long flag
\* with or without inline value, short flag with or without inline value, or
\* positional; the key and the inline value are those of that rule, original
\* is the text as given, and a positional is never flag-shaped.
C21_FirstMatchClassification ==
    given.fn = "parseToken" =>
        LET t == Strip(given.text) IN
        /\ result.original = given.text
        /\ result.isEndOfFlags <=> TokenClass(t) = "endOfFlags"
        /\ result.isNegation <=> TokenClass(t) = "negation"
        /\ result.isFlag <=>
              TokenClass(t) \in {"negation", "longValue", "long", "shortValue", "short"}
        /\ result.key = TokenKey(t)
        /\ result.value = TokenValue(t)

----------------------------------------------------------------------------
(* Time *)

DIGITS == <<"0", "1", "2", "3", "4", "5", "6", "7", "8", "9">>

\* \d
IsDigit(c) == \E k \in 1..Len(DIGITS) : DIGITS[k] = c
DigitOf(c) == (CHOOSE k \in 1..Len(DIGITS) : DIGITS[k] = c) - 1

\* \d+ from position p on, greedy: the position after the last digit
RECURSIVE DigitRunEnd(_, _)
DigitRunEnd(s, p) ==
    IF p <= Len(s) /\ IsDigit(s[p]) THEN DigitRunEnd(s, p + 1) ELSE p

\* Number(digits), for a run of digits
RECURSIVE Natural(_)
Natural(ds) ==
    IF ds = <<>> THEN 0
    ELSE 10 * Natural(SubSeq(ds, 1, Len(ds) - 1)) + DigitOf(ds[Len(ds)])

RECURSIVE Pow10(_)
Pow10(n) == IF n = 0 THEN 1 ELSE 10 * Pow10(n - 1)

\* A number of milliseconds is kept exactly, in thousandths, as the sequence
\* of its base-1000 digits, the lowest first: 2_629_800_000 ms is
\* <<0, 0, 800, 629, 2>>. The fractions of the texts below have at most three
\* digits, so that a thousandth is exact.
Scale == 1000

RECURSIVE Big(_)
Big(n) == IF n = 0 THEN <<>> ELSE <<n % Scale>> \o Big(n \div Scale)

RECURSIVE BigAddCarry(_, _, _)
BigAddCarry(x, y, carry) ==
    IF x = <<>> /\ y = <<>> THEN Big(carry)
    ELSE LET a == IF x = <<>> THEN 0 ELSE Head(x)
             b == IF y = <<>> THEN 0 ELSE Head(y)
         IN <<(a + b + carry) % Scale>>
            \o BigAddCarry(IF x = <<>> THEN x ELSE Tail(x),
                           IF y = <<>> THEN y ELSE Tail(y),
                           (a + b + carry) \div Scale)

\* x + y
BigAdd(x, y) == BigAddCarry(x, y, 0)

RECURSIVE BigTimesCarry(_, _, _)
BigTimesCarry(x, k, carry) ==
    IF x = <<>> THEN Big(carry)
    ELSE <<(Head(x) * k + carry) % Scale>>
         \o BigTimesCarry(Tail(x), k, (Head(x) * k + carry) \div Scale)

\* x * k, for k below a million
BigTimes(x, k) == IF k = 0 THEN <<>> ELSE BigTimesCarry(x, k, 0)

\* x * 1000
BigShift(x) == IF x = <<>> THEN x ELSE <<0>> \o x

\* Number(match[1]) * factor for digits or digits.digits, in thousandths
Product(int, frac, factor) ==
    BigAdd(BigShift(BigTimes(factor, Natural(int))),
           BigTimes(factor, (Natural(frac) * Scale) \div Pow10(Len(frac))))

\* the alternation (ms|s|m|h|d|w|mo|y), in the order the engine tries it
DURATION_UNITS ==
    << <<"m", "s">>, <<"s">>, <<"m">>, <<"h">>, <<"d">>, <<"w">>, <<"m", "o">>, <<"y">> >>

\* the first alternative that matches at position p, Undefined if none does
UnitAt(s, p) ==
    LET hits == {k \in 1..Len(DURATION_UNITS) :
                    /\ p + Len(DURATION_UNITS[k]) - 1 <= Len(s)
                    /\ SubSeq(s, p, p + Len(DURATION_UNITS[k]) - 1) = DURATION_UNITS[k]}
    IN IF hits = {} THEN Undefined
       ELSE DURATION_UNITS[CHOOSE k \in hits : \A j \in hits : k <= j]

\* a match of /(\d+(?:\.\d+)?)(ms|s|m|h|d|w|mo|y)/ that starts at position p
MatchAt(s, p) ==
    LET e1 == DigitRunEnd(s, p)
        hasFraction == e1 + 1 <= Len(s) /\ s[e1] = "." /\ IsDigit(s[e1 + 1])
        e2 == IF hasFraction THEN DigitRunEnd(s, e1 + 1) ELSE e1
        NoMatch == [found |-> FALSE, end |-> p, int |-> <<>>, frac |-> <<>>,
                    unit |-> Undefined]
    IN IF ~(p <= Len(s) /\ IsDigit(s[p])) THEN NoMatch
       ELSE IF hasFraction /\ UnitAt(s, e2) # Undefined
       THEN [found |-> TRUE, end |-> e2 + Len(UnitAt(s, e2)),
             int |-> SubSeq(s, p, e1 - 1), frac |-> SubSeq(s, e1 + 1, e2 - 1),
             unit |-> UnitAt(s, e2)]
       ELSE IF UnitAt(s, e1) # Undefined
       THEN [found |-> TRUE, end |-> e1 + Len(UnitAt(s, e1)),
             int |-> SubSeq(s, p, e1 - 1), frac |-> <<>>, unit |-> UnitAt(s, e1)]
       ELSE NoMatch

\* Time.unitToMs
unitToMs(unit) ==
    CASE unit = <<"m", "s">> -> <<1>>
      [] unit = <<"s">> -> <<0, 1>>
      [] unit = <<"m">> -> <<0, 60>>
      [] unit = <<"h">> -> <<0, 600, 3>>
      [] unit = <<"d">> -> <<0, 400, 86>>
      [] unit = <<"w">> -> <<0, 800, 604>>
      [] unit = <<"m", "o">> -> <<0, 800, 629, 2>>
      [] unit = <<"y">> -> <<0, 600, 557, 31>>

\* the loop over regex.exec(input) of parseDuration and isValid, from
\* position p (lastIndex) on
RECURSIVE execLoop(_, _, _, _)
execLoop(s, p, total, found) ==
    IF p > Len(s) THEN [found |-> found, total |-> total]
    ELSE IF MatchAt(s, p).found
    THEN execLoop(s, MatchAt(s, p).end,
                  BigAdd(total, Product(MatchAt(s, p).int, MatchAt(s, p).frac,
                                        unitToMs(MatchAt(s, p).unit))), TRUE)
    ELSE execLoop(s, p + 1, total, found)

\* Time.parseDuration: the total in thousandths of a millisecond, or null
parseDuration(s) == execLoop(s, 1, <<>>, FALSE)

\* Time.parseDate. new Date(text) is left to the implementation for a text
\* that is not in the ISO format: a text of digits and dots only, such as
\* "1" or "1.5", is a date for a lenient implementation and none for a
\* strict one; a text with other characters of the alphabet below is none.
parseDate(s, lenient) ==
    /\ lenient
    /\ \E k \in 1..Len(s) : IsDigit(s[k])
    /\ \A k \in 1..Len(s) : IsDigit(s[k]) \/ s[k] = "."

\* new Time(input): the value, or a ParsingError; a date gives a value that
\* depends on the clock, kept as zero
newTime(text, lenient) ==
    IF Trim(text) = <<>> THEN [ok |-> FALSE, date |-> FALSE, value |-> <<>>]
    ELSE IF parseDate(Trim(text), lenient) THEN [ok |-> TRUE, date |-> TRUE, value |-> <<>>]
    ELSE IF parseDuration(Trim(text)).found
    THEN [ok |-> TRUE, date |-> FALSE, value |-> parseDuration(Trim(text)).total]
    ELSE [ok |-> FALSE, date |-> FALSE, value |-> <<>>]

\* Time.isValid(input) for a string
isValid(text, lenient) ==
    IF Trim(text) = <<>> THEN [ok |-> FALSE, date |-> FALSE, value |-> <<>>]
    ELSE IF parseDate(Trim(text), lenient) THEN [ok |-> TRUE, date |-> TRUE, value |-> <<>>]
    ELSE [ok |-> parseDuration(Trim(text)).found, date |-> FALSE, value |-> <<>>]

MaxTime == 5

TimeChars == {"1", ".", "m", "s", "o", "h"}

NewTime ==
    /\ Idle
    /\ \E text \in Texts(TimeChars, MaxTime), lenient \in BOOLEAN :
          /\ given' = [fn |-> "Time", text |-> text]
          /\ result' = newTime(text, lenient)
    /\ UNCHANGED <<buildVars, variant, runVars>>

IsValid ==
    /\ Idle
    /\ \E text \in Texts(TimeChars, MaxTime), lenient \in BOOLEAN :
          /\ given' = [fn |-> "isValid", text |-> text]
          /\ result' = isValid(text, lenient)
    /\ UNCHANGED <<buildVars, variant, runVars>>

NextTime == NewTime \/ IsValid

SpecTime == InitBuild /\ [][NextTime]_vars

----------------------------------------------------------------------------
(* Properties of Time *)

\* the units of a duration and their fixed factors in milliseconds
UnitFactors ==
    {[unit |-> <<"m", "s">>, ms |-> <<1>>],
     [unit |-> <<"s">>, ms |-> <<0, 1>>],
     [unit |-> <<"m">>, ms |-> <<0, 60>>],
     [unit |-> <<"h">>, ms |-> <<0, 600, 3>>],
     [unit |-> <<"d">>, ms |-> <<0, 400, 86>>],
     [unit |-> <<"w">>, ms |-> <<0, 800, 604>>],
     [unit |-> <<"m", "o">>, ms |-> <<0, 800, 629, 2>>],
     [unit |-> <<"y">>, ms |-> <<0, 600, 557, 31>>]}

AllDigits(x) == x # <<>> /\ \A k \in 1..Len(x) : x[k] \in {"0", "1", "2", "3", "4", "5", "6", "7", "8", "9"}

\* the number of a segment that is t[1..k], as its integer and fraction
\* digits: digits, or digits "." digits
NumbersAt(t, k) ==
    {[int |-> SubSeq(t, 1, k), frac |-> <<>>] : x \in {1} \cap {j \in {1} : AllDigits(SubSeq(t, 1, k))}}
    \cup {[int |-> SubSeq(t, 1, d - 1), frac |-> SubSeq(t, d + 1, k)] :
             d \in {j \in 2..(k - 1) :
                       /\ t[j] = "."
                       /\ AllDigits(SubSeq(t, 1, j - 1))
                       /\ AllDigits(SubSeq(t, j + 1, k))}}

\* the totals, in thousandths of a millisecond, of the ways to read t as a
\* sequence of <number><unit> segments; empty if t is not such a sequence
RECURSIVE SegmentSums(_)
SegmentSums(t) ==
    IF t = <<>> THEN {<<>>}
    ELSE UNION {UNION {UNION {{BigAdd(Product(n.int, n.frac, f.ms), rest) :
                                 rest \in SegmentSums(SubSeq(t, k + Len(f.unit) + 1, Len(t)))} :
                              n \in NumbersAt(t, k)} :
                       f \in {g \in UnitFactors :
                                 /\ k + Len(g.unit) <= Len(t)
                                 /\ SubSeq(t, k + 1, k + Len(g.unit)) = g.unit}} :
                k \in 1..Len(t)}

Segmented(t) == t # <<>> /\ SegmentSums(t) # {}

\* C22: for a text made up of one or more <number><unit> segments, the time
\* coercion succeeds and its millisecond total is the sum over the segments
\* of the number times the factor of the segment's own unit.
C22_DurationIsSumOfSegments ==
    (given.fn = "Time" /\ Segmented(given.text)) =>
        /\ result.ok
        /\ result.value \in SegmentSums(given.text)

\* C27: a text that is not a date and is not made up entirely of
\* <number><unit> segments is rejected: Time.isValid answers false and the
\* time coercion fails.
C27_StrictDurations ==
    (/\ given.fn \in {"Time", "isValid"}
     /\ ~result.date
     /\ ~Segmented(given.text)) => ~result.ok

----------------------------------------------------------------------------
(* parseList: a comma-separated text, optionally in square brackets *)

\* input.split(','): the pieces between the commas, one more than commas
RECURSIVE splitComma(_, _)
splitComma(s, piece) ==
    IF s = <<>> THEN <<piece>>
    ELSE IF Head(s) = "," THEN <<piece>> \o splitComma(Tail(s), <<>>)
    ELSE splitComma(Tail(s), Append(piece, Head(s)))

\* .map((v) => v.trim()).filter(Boolean)
RECURSIVE trimmedNonEmpty(_)
trimmedNonEmpty(pieces) ==
    IF pieces = <<>> THEN <<>>
    ELSE (IF Trim(Head(pieces)) = <<>> THEN <<>> ELSE <<Trim(Head(pieces))>>)
         \o trimmedNonEmpty(Tail(pieces))

\* trimmed.startsWith('[') && trimmed.endsWith(']') ? trimmed.slice(1, -1) : trimmed
unwrapped(trimmed) ==
    IF trimmed # <<>> /\ Head(trimmed) = "[" /\ trimmed[Len(trimmed)] = "]"
    THEN SubSeq(trimmed, 2, Len(trimmed) - 1)
    ELSE trimmed

parseList(input) ==
    LET list == unwrapped(Trim(input))
    IN  IF list = <<>> THEN [ok |-> FALSE, value |-> <<>>]
        ELSE [ok |-> TRUE, value |-> trimmedNonEmpty(splitComma(list, <<>>))]

MaxList == 5
ListChars == {"[", "]", ",", " ", "a"}

\* one coercion of a text as stringArray: parseList(value).map((v) => v.trim())
ParseList ==
    /\ Idle
    /\ \E text \in Texts(ListChars, MaxList) :
          /\ given' = [fn |-> "parseList", text |-> text]
          /\ result' = parseList(text)
    /\ UNCHANGED <<buildVars, variant, runVars>>

SpecList == InitBuild /\ [][ParseList]_vars

\* C23: the bracket form is equivalent to the bare comma form: for every
\* text s, "[" s "]" coerces to the same element sequence as s, or both
\* fail; the elements are trimmed and never empty, and an empty or
\* whitespace-only text fails.
C23_BracketFormEquivalent ==
    given.fn = "parseList" =>
        /\ parseList(<<"[">> \o given.text \o <<"]">>) = result
        /\ (\A k \in 1..Len(given.text) : given.text[k] = " ") => ~result.ok
        /\ result.ok =>
              \A k \in 1..Len(result.value) :
                 LET e == result.value[k]
                 IN  e # <<>> /\ e[1] # " " /\ e[Len(e)] # " "

----------------------------------------------------------------------------
(* parseJson: a text read as a plain object *)

\* A JSON text is a sequence of lexemes: a lexeme is one punctuation
\* character, one blank, or a whole word (a run of word characters).
DQ == "\""
SQ == "'"
WORDS == {"a", "constructor", "prototype", "__proto__", "process", "1"}
IsWordLexeme(l) == l \in WORDS
IsNumberLexeme(l) == l = "1"

\* /\b(function|class|new|return|process|require|import|export|eval|this|global|window)\b/
FORBIDDEN_TOKENS ==
    {"function", "class", "new", "return", "process", "require", "import",
     "export", "eval", "this", "global", "window"}

FORBIDDEN_KEYS == {<<"__proto__">>, <<"prototype">>, <<"constructor">>}

\* a test that finds no forbidden token in any text
hasForbiddenToken_never(input) == FALSE

\* FORBIDDEN_TOKENS.test(input): a forbidden word between word boundaries
hasForbiddenToken(input) ==
    \E p \in 1..Len(input) :
       /\ input[p] \in FORBIDDEN_TOKENS
       /\ (p = 1 \/ ~IsWordLexeme(input[p - 1]))
       /\ (p = Len(input) \/ ~IsWordLexeme(input[p + 1]))

\* JSON values: t is "object", "array", "string" or "number"; s is the text
\* of a string or number; items are the elements of an array or the
\* entries [key, value] of an object in insertion order
JsonString(s) == [t |-> "string", s |-> s, items |-> <<>>]
JsonNumber(s) == [t |-> "number", s |-> s, items |-> <<>>]
JsonArray(items) == [t |-> "array", s |-> <<>>, items |-> items]
JsonObject(entries) == [t |-> "object", s |-> <<>>, items |-> entries]
SyntaxError == [ok |-> FALSE, value |-> JsonString(<<>>), next |-> 0]
JsonParsed(value, next) == [ok |-> TRUE, value |-> value, next |-> next]

RECURSIVE skipWs(_, _)
skipWs(t, p) == IF p <= Len(t) /\ t[p] = " " THEN skipWs(t, p + 1) ELSE p

\* the position of the closing quote of a string opened before p, 0 if none
RECURSIVE closingQuote(_, _)
closingQuote(t, p) ==
    IF p > Len(t) THEN 0
    ELSE IF t[p] = DQ THEN p
    ELSE closingQuote(t, p + 1)

RECURSIVE wordRunEnd(_, _)
wordRunEnd(t, p) ==
    IF p <= Len(t) /\ IsWordLexeme(t[p]) THEN wordRunEnd(t, p + 1) ELSE p

\* obj[key] = value: a repeated key keeps its place and takes the new value
setEntry(entries, key, value) ==
    IF \E k \in 1..Len(entries) : entries[k].key = key
    THEN [k \in 1..Len(entries) |->
             IF entries[k].key = key THEN [key |-> key, value |-> value]
             ELSE entries[k]]
    ELSE Append(entries, [key |-> key, value |-> value])

RECURSIVE jsonValue(_, _)
RECURSIVE jsonMembers(_, _, _)
RECURSIVE jsonElements(_, _, _)

\* the members of an object from p, after "{" or ","
jsonMembers(t, p, entries) ==
    LET k == skipWs(t, p)
    IN  IF k > Len(t) \/ t[k] # DQ THEN SyntaxError
        ELSE LET q == closingQuote(t, k + 1)
                 c == skipWs(t, q + 1)
             IN  IF q = 0 \/ c > Len(t) \/ t[c] # ":" THEN SyntaxError
                 ELSE LET v == jsonValue(t, skipWs(t, c + 1))
                          e == skipWs(t, v.next)
                          more == setEntry(entries, SubSeq(t, k + 1, q - 1), v.value)
                      IN  IF ~v.ok \/ e > Len(t) THEN SyntaxError
                          ELSE IF t[e] = "}" THEN JsonParsed(JsonObject(more), e + 1)
                          ELSE IF t[e] = "," THEN jsonMembers(t, e + 1, more)
                          ELSE SyntaxError

\* the elements of an array from p, after "[" or ","
jsonElements(t, p, items) ==
    LET v == jsonValue(t, skipWs(t, p))
        e == skipWs(t, v.next)
    IN  IF ~v.ok \/ e > Len(t) THEN SyntaxError
        ELSE IF t[e] = "]" THEN JsonParsed(JsonArray(Append(items, v.value)), e + 1)
        ELSE IF t[e] = "," THEN jsonElements(t, e + 1, Append(items, v.value))
        ELSE SyntaxError

\* one value at p
jsonValue(t, p) ==
    IF p > Len(t) THEN SyntaxError
    ELSE IF t[p] = "{" THEN
        LET k == skipWs(t, p + 1)
        IN  IF k <= Len(t) /\ t[k] = "}" THEN JsonParsed(JsonObject(<<>>), k + 1)
            ELSE jsonMembers(t, p + 1, <<>>)
    ELSE IF t[p] = "[" THEN
        LET k == skipWs(t, p + 1)
        IN  IF k <= Len(t) /\ t[k] = "]" THEN JsonParsed(JsonArray(<<>>), k + 1)
            ELSE jsonElements(t, p + 1, <<>>)
    ELSE IF t[p] = DQ THEN
        LET q == closingQuote(t, p + 1)
        IN  IF q = 0 THEN SyntaxError
            ELSE JsonParsed(JsonString(SubSeq(t, p + 1, q - 1)), q + 1)
    ELSE IF IsWordLexeme(t[p]) THEN
        LET q == wordRunEnd(t, p)
        IN  IF \A k \in p..(q - 1) : IsNumberLexeme(t[k])
            THEN JsonParsed(JsonNumber(SubSeq(t, p, q - 1)), q)
            ELSE SyntaxError
    ELSE SyntaxError

\* JSON.parse(text): one value, blanks around it, nothing else
JSONparse(text) ==
    LET v == jsonValue(text, skipWs(text, 1))
    IN  IF v.ok /\ skipWs(text, v.next) = Len(text) + 1 THEN v ELSE SyntaxError

\* .replace(/'/g, '"')
singleToDouble(t) == [k \in 1..Len(t) |-> IF t[k] = SQ THEN DQ ELSE t[k]]

\* .replace(/([{,]\s*)([a-zA-Z_$][\w$]*)\s*:/g, '$1"$2":')
RECURSIVE quoteKeys(_, _)
quoteKeys(t, p) ==
    IF p > Len(t) THEN <<>>
    ELSE LET k == skipWs(t, p + 1)
             q == wordRunEnd(t, k)
             c == skipWs(t, q)
         IN  IF /\ t[p] \in {"{", ","}
                /\ q > k
                /\ ~IsNumberLexeme(t[k])
                /\ c <= Len(t)
                /\ t[c] = ":"
             THEN SubSeq(t, p, k - 1) \o <<DQ>> \o SubSeq(t, k, q - 1) \o <<DQ, ":">>
                  \o quoteKeys(t, c + 1)
             ELSE <<t[p]>> \o quoteKeys(t, p + 1)

\* .replace(/,(\s*[}\]])/g, '$1')
RECURSIVE dropTrailingCommas(_, _)
dropTrailingCommas(t, p) ==
    IF p > Len(t) THEN <<>>
    ELSE LET k == skipWs(t, p + 1)
         IN  IF t[p] = "," /\ k <= Len(t) /\ t[k] \in {"}", "]"}
             THEN SubSeq(t, p + 1, k) \o dropTrailingCommas(t, k + 1)
             ELSE <<t[p]>> \o dropTrailingCommas(t, p + 1)

\* .replace(/^\(/, '').replace(/\)$/, '')
unparenthesised(t) ==
    LET a == IF t # <<>> /\ Head(t) = "(" THEN Tail(t) ELSE t
    IN  IF a # <<>> /\ a[Len(a)] = ")" THEN SubSeq(a, 1, Len(a) - 1) ELSE a

\* jsObjectToJson(input): ok is false where it throws
jsObjectToJson(input) ==
    IF hasForbiddenToken(input) THEN [ok |-> FALSE, text |-> <<>>]
    ELSE [ok |-> TRUE,
          text |-> dropTrailingCommas(
                      quoteKeys(singleToDouble(unparenthesised(Trim(input))), 1), 1)]

isPlainObject(value) == value.t = "object"

NoObject == [ok |-> FALSE, value |-> JsonObject(<<>>)]

RECURSIVE sanitizeObject(_)
RECURSIVE sanitizeEntries(_, _, _)

\* the loop of sanitizeObject from entry k on, clean being built
sanitizeEntries(entries, k, clean) ==
    IF k > Len(entries) THEN [ok |-> TRUE, value |-> JsonObject(clean)]
    ELSE LET key == entries[k].key
             value == entries[k].value
         IN  IF key \in FORBIDDEN_KEYS THEN NoObject
             ELSE IF value.t = "array"
                  THEN sanitizeEntries(entries, k + 1, setEntry(clean, key, value))
             ELSE IF isPlainObject(value)
                  THEN LET inner == sanitizeObject(value)
                       IN  IF ~inner.ok THEN NoObject
                           ELSE sanitizeEntries(entries, k + 1,
                                                setEntry(clean, key, inner.value))
             ELSE sanitizeEntries(entries, k + 1, setEntry(clean, key, value))

sanitizeObject(obj) == sanitizeEntries(obj.items, 1, <<>>)

parseJson(input) ==
    LET strict == JSONparse(input)
        normalized == jsObjectToJson(input)
        fallback == IF normalized.ok THEN JSONparse(normalized.text) ELSE SyntaxError
        parsed == IF strict.ok THEN strict ELSE fallback
    IN  IF ~parsed.ok THEN NoObject
        ELSE IF ~isPlainObject(parsed.value) THEN NoObject
        ELSE sanitizeObject(parsed.value)

MaxNest == 3

JsonKeys ==
    {<<DQ, "a", DQ>>, <<"a">>, <<DQ, "constructor", DQ>>, <<"constructor">>,
     <<SQ, "__proto__", SQ>>, <<DQ, "process", DQ>>, <<"process">>}

JsonLeaves == {<<"1">>, <<DQ, "process", DQ>>, <<SQ, "a", SQ>>, <<"process">>}

\* the texts of values nested at most d deep
RECURSIVE JsonValues(_)
JsonValues(d) ==
    IF d = 0 THEN JsonLeaves
    ELSE LET inner == JsonValues(d - 1)
         IN  JsonLeaves
             \cup {<<"{">> \o k \o <<":">> \o v \o <<"}">> : k \in JsonKeys, v \in inner}
             \cup {<<"[">> \o v \o <<"]">> : v \in inner}

\* the texts handed to parseJson: values, and objects written with
\* parentheses, with a trailing comma, with a second entry, unclosed
JsonTexts ==
    LET inner == JsonValues(MaxNest - 1)
    IN  JsonValues(MaxNest)
        \cup {<<"(", "{">> \o k \o <<":">> \o v \o <<"}", ")">> : k \in JsonKeys, v \in inner}
        \cup {<<"{">> \o k \o <<":", " ">> \o v \o <<",", "}">> : k \in JsonKeys, v \in inner}
        \cup {<<"{", DQ, "a", DQ, ":", "1", ",", " ">> \o k \o <<":">> \o v \o <<"}">> :
                 k \in JsonKeys, v \in inner}
        \cup {<<"{">> \o k \o <<":">> \o v : k \in JsonKeys, v \in inner}

\* one coercion of a text as json
ParseJson ==
    /\ Idle
    /\ \E text \in JsonTexts :
          /\ given' = [fn |-> "parseJson", text |-> text]
          /\ result' = parseJson(text)
    /\ UNCHANGED <<buildVars, variant, runVars>>

SpecJson == InitBuild /\ [][ParseJson]_vars

----------------------------------------------------------------------------
(* Properties of parseJson *)

DangerousKeys == {"__proto__", "prototype", "constructor"}

\* some object of the value, at any depth and inside arrays too, has a
\* dangerous key
RECURSIVE HasDangerousKey(_)
HasDangerousKey(value) ==
    \/ /\ value.t = "object"
       /\ \E k \in 1..Len(value.items) :
             \/ value.items[k].key \in {<<d>> : d \in DangerousKeys}
             \/ HasDangerousKey(value.items[k].value)
    \/ /\ value.t = "array"
       /\ \E k \in 1..Len(value.items) : HasDangerousKey(value.items[k])

\* the first lexeme from p on that is neither a quote nor a blank
RECURSIVE AfterQuotes(_, _)
AfterQuotes(t, p) ==
    IF p > Len(t) THEN "end"
    ELSE IF t[p] \in {"\"", "'", " "} THEN AfterQuotes(t, p + 1)
    ELSE t[p]

\* the text writes a dangerous name as a key
WritesDangerousKey(t) ==
    \E p \in 1..Len(t) : t[p] \in DangerousKeys /\ AfterQuotes(t, p + 1) = ":"

\* C24: a successful JSON coercion returns no object, at any nesting depth
\* and inside arrays too, with a key __proto__, prototype or constructor; a
\* text that carries such a key anywhere fails.
C24_NoDangerousKeyReturned ==
    given.fn = "parseJson" =>
        /\ result.ok => ~HasDangerousKey(result.value)
        /\ WritesDangerousKey(given.text) => ~result.ok

\* C25: a text that contains the token process is rejected by the JSON
\* coercion, whether it is strict JSON or an object literal.
C25_ProcessTokenRejected ==
    (/\ given.fn = "parseJson"
     /\ \E p \in 1..Len(given.text) : given.text[p] = "process") => ~result.ok

\* C25, amended: a text that contains the token process and is not strict
\* JSON, so that it is read as an object literal, is rejected.
C25_ProcessTokenRejectedInLiterals ==
    (/\ given.fn = "parseJson"
     /\ \E p \in 1..Len(given.text) : given.text[p] = "process"
     /\ ~JSONparse(given.text).ok) => ~result.ok

\* {process:1} would be the object {"process":1} after normalization and is
\* rejected
C25_Witness ==
    /\ given = [fn |-> "parseJson", text |-> <<"{", "process", ":", "1", "}">>]
    /\ JSONparse(<<"{", "\"", "process", "\"", ":", "1", "}">>).ok
    /\ ~result.ok

----------------------------------------------------------------------------
(* Properties of run as a whole *)

\* C26: from the call of run to its end, whatever the outcome, no step
\* changes the command tree or the caller's argv.
C26_RunIsReadOnly ==
    [][pc # "ready" => (nodes' = nodes /\ argv' = argv)]_vars

\* a run that descended into a sub-command, consuming a token of its own
\* copy, called the handler and returned
C26_Witness ==
    /\ pc = "returned"
    /\ outcome.handlerCalls = 1
    /\ activeCommand # 1
    /\ Len(argv) = MaxArgv
    /\ Len(tokens) < Len(argv)
    /\ nodes \in Trees

----------------------------------------------------------------------------
(* Properties of failing declarations *)

\* C28: a declaration call that fails (duplicate option, argument or
\* sub-command, ordering violation, second action) leaves every node as it
\* was: nothing is added or replaced, the first handler is kept, and an
\* instance passed to a failing command() keeps its name.
C28_FailedCallChangesNothing ==
    [][(calls' = calls + 1 /\ lastCall'.err # "none") => nodes' = nodes]_vars

\* command() failed for a name that exists, and the instance it was given
\* has another name
C28_Witness ==
    /\ lastCall.op = "command"
    /\ lastCall.err = "DuplicateDefinition"
    /\ lastCall.commad # NoNode
    /\ nodes[lastCall.commad].name # lastCall.name

----------------------------------------------------------------------------
(* Runs over trees with shared instances *)

\* cli.command('r', cli); const a = cli.command('a'); a.command('a', a);
\* a.command('r', cli): the CLI is registered under itself and under a, and
\* a under the CLI and under itself
LoopSkeleton ==
    LET selfR == command(<<NewCommand(cli)>>, 1, <<"r">>, 1)
        withA == command(selfR.nodes, 1, <<"a">>, NoNode)
        selfA == command(withA.nodes, withA.returned, <<"a">>, withA.returned)
    IN command(selfA.nodes, withA.returned, <<"r">>, 1).nodes

\* every command gets the positionals of the script; the commands of
\* withOptions get the three options, those of withHandler an action
LoopTree(script, withOptions, withHandler) ==
    LET RECURSIVE Declare(_, _)
        Declare(ns, n) ==
            IF n = 0 THEN ns
            ELSE LET a == DeclareArguments(Declare(ns, n - 1), n, script, Len(script))
                     o == IF n \in withOptions THEN DeclareOptions(a, n) ELSE a
                 IN IF n \in withHandler THEN action(o, n, "h1").nodes ELSE o
    IN Declare(LoopSkeleton, Len(LoopSkeleton))

\* no positional, a required one, a required one and an optional one
LoopScripts == {<<>>, <<Required>>, <<Required, Optional>>}

LoopTrees ==
    {LoopTree(script, {1}, {1}) : script \in LoopScripts}
    \cup {LoopTree(script, {2}, {2}) : script \in LoopScripts}

InitLoop ==
    /\ nodes \in LoopTrees
    /\ lastCall = Call("new", 1, cli, NoConfig, NoNode, NoHandler, Result(nodes, "none", 1))
    /\ calls = 0
    /\ variant \in Variants
    /\ pc = "ready"
    /\ argv = <<>>
    /\ tokens = <<>>
    /\ activeCommand = NoNode
    /\ args = <<>>
    /\ options = <<>>
    /\ positionalIndex = 0
    /\ endOfFlags = FALSE
    /\ i = 0
    /\ disp = <<>>
    /\ outcome = NoOutcome
    /\ Idle

\* run is one synchronous call: once called it goes on, step after step,
\* until it returns, exits or throws
RunStep == Descend \/ Resolved \/ ScanToken \/ Finish

SpecLoop == InitLoop /\ [][Next]_vars /\ WF_vars(RunStep)

\* C29: run terminates for every argv and every tree, also where an
\* instance is registered under several parents or under itself: each step
\* of the descent takes one token away, each step of the scan moves past
\* one token or, for an option with its value, two, and every run that was
\* called returns, exits or throws.
C29_RunTerminates ==
    /\ [][(pc = "descent" /\ pc' = "descent") => Len(tokens') = Len(tokens) - 1]_vars
    /\ [][(pc = "scan" /\ pc' = "scan") => i' \in {i + 1, i + 2}]_vars
    /\ (pc = "descent") ~> (pc \in {"returned", "exited", "threw"})

\* a run that went three times from the CLI to the CLI through its own
\* sub-command r and ended
C29_Witness ==
    /\ argv = << <<"r">>, <<"r">>, <<"r">> >>
    /\ GetSub(nodes, 1, <<"r">>) = 1
    /\ activeCommand = 1
    /\ tokens = <<>>
    /\ pc \in {"returned", "exited", "threw"}

----------------------------------------------------------------------------
(* Runs with positionals of type number *)

NumberRequired == Config("number", FALSE, UndefinedValue, <<>>, <<>>)
NumberOptional == Config("number", TRUE, UndefinedValue, <<>>, <<>>)

NumberScripts == {<<NumberRequired>>, <<NumberOptional>>, <<NumberRequired, NumberOptional>>}

\* .argument('p', {type: 'number'}).option('x', Minify).action(h1) on node n
DeclareNumbers(ns, n, script) ==
    LET withArgs == DeclareArguments(ns, n, script, Len(script))
        withX == option(withArgs, n, <<"x">>, Minify).nodes
    IN action(withX, n, "h1").nodes

\* the CLI and its sub-command b, both with the positionals of the script
NumberTree(script) ==
    LET withB == command(<<NewCommand(cli)>>, 1, <<"b">>, NoNode)
    IN DeclareNumbers(DeclareNumbers(withB.nodes, 1, script), withB.returned, script)

NumberTrees == {NumberTree(script) : script \in NumberScripts}

NumberTokens ==
    {<<"b">>, <<"1">>, <<"1", ".", "1">>, <<"-", "1">>, <<"-", "1", ".", "1">>,
     <<"1", ".">>, <<"-">>, <<"-", "-">>, <<"-", "-", "x">>}

InitNumbers ==
    /\ nodes \in NumberTrees
    /\ lastCall = Call("new", 1, cli, NoConfig, NoNode, NoHandler, Result(nodes, "none", 1))
    /\ calls = 0
    /\ variant \in Variants
    /\ pc = "ready"
    /\ argv = <<>>
    /\ tokens = <<>>
    /\ activeCommand = NoNode
    /\ args = <<>>
    /\ options = <<>>
    /\ positionalIndex = 0
    /\ endOfFlags = FALSE
    /\ i = 0
    /\ disp = <<>>
    /\ outcome = NoOutcome
    /\ Idle

NextNumbers == RunCall(NumberTokens) \/ Descend \/ Resolved \/ ScanToken \/ Finish

SpecNumbers == InitNumbers /\ [][NextNumbers]_vars

\* a numeric literal: digits, or digits "." digits, with or without a sign
IsLiteral(t) ==
    LET body == IF t # <<>> /\ Head(t) = "-" THEN Tail(t) ELSE t
    IN  \/ AllDigits(body)
        \/ \E d \in 2..(Len(body) - 1) :
              /\ body[d] = "."
              /\ AllDigits(SubSeq(body, 1, d - 1))
              /\ AllDigits(SubSeq(body, d + 1, Len(body)))

\* the scan is at a numeric literal while a positional of type number is
\* pending
LiteralMeetsNumber ==
    /\ AtToken
    /\ HasPending
    /\ Pending.value.type = "number"
    /\ IsLiteral(tokens[i])

\* C30: a numeric literal, signed like -1 and -1.1 or unsigned, that meets a
\* pending positional of type number is bound to it as that number and the
\* scan goes on; no "--" is needed before it.
C30_SignedLiteralsBind ==
    [][LiteralMeetsNumber =>
          /\ pc' = "scan"
          /\ positionalIndex' = positionalIndex + 1
          /\ ValueOf(args', Pending.name) = [t |-> "number", s |-> tokens[i], b |-> FALSE]]_vars

====
